---- MODULE Spec2Model ----
(***************************************************************************)
(* The aggregation layer of the city-statistics dashboard:                 *)
(*   src/dashboard_complete.py  DataLoader, DataProcessor, DashboardApp    *)
(*   src/data_handler.py        DataHandler                                *)
(*   src/pages_complete.py      InfrastructurePage.render (signalization)  *)
(*   src/app.py, src/main.py    main(): the store is built on every run;   *)
(*                              show_overview: the five queries, the key   *)
(*                              metrics, the dataset status table          *)
(*   src/indore_dashboard.py    load_data, the stop on a loading error,    *)
(*                              the averages of the Environment page       *)
(*   src/datasets/create_unified_dataset.py  UnifiedDatasetCreator         *)
(*                                                                         *)
(* Numbers are fixed-point: Num(v) stands for the float v / Unit, with     *)
(* Unit = 10^FracDigits, the precision round(x, 2) keeps; a percentage     *)
(* whose exact value is a rounding tie is computed on the doubles.         *)
(* Strings are sequences of one-character strings, so that upper() and     *)
(* float() are computed character by character.                            *)
(***************************************************************************)
EXTENDS Integers, Sequences, FiniteSets, TLC

VARIABLES
    files,      \* the dataset directory: dataset name -> file on disk
    data,       \* DashboardApp.data / DataLoader.data: key -> table or None
    datasets,   \* DataHandler.datasets: key -> table or None
    call,       \* the call being made: its name and its arguments
    result,     \* what the call returned or raised
    reads,      \* file name -> the pd.read_csv calls made on it so far
    asLoaded    \* the tables of the store as its constructor left them

vars == <<files, data, datasets, call, result, reads, asLoaded>>

(***************************************************************************)
(* Values: what a cell, an argument or a return value can be.              *)
(***************************************************************************)
FracDigits == 2
Unit == 10 ^ FracDigits

Num(v) == [t |-> "num", v |-> v]          \* the float v / Unit
Whole(k) == Num(k * Unit)                 \* the whole number k
NaN == [t |-> "nan"]                      \* np.nan, the missing value
None == [t |-> "none"]                    \* Python's None
Inf(sign) == [t |-> "inf", sign |-> sign] \* +inf / -inf
Str(s) == [t |-> "str", s |-> s]          \* a str, as its characters

IsNum(x) == x.t = "num"
IsStr(x) == x.t = "str"
\* pd.isna / pd.notna on a scalar
IsNa(x) == x.t \in {"nan", "none"}

\* What a call did: returned a value or raised an exception.
Ret(v) == [st |-> "ret", val |-> v]
Raise(e) == [st |-> "raise", exc |-> e]
\* no call has returned yet
Pending == [st |-> "pending"]
\* a call of obj.op(args)
Call(obj, op, args) == [obj |-> obj, op |-> op, args |-> args]
Idle == Call("", "", <<>>)
\* the empty dict {}
NoMapping == [k \in {} |-> None]

(***************************************************************************)
(* Arithmetic.                                                             *)
(***************************************************************************)
Abs(x) == IF x < 0 THEN -x ELSE x

\* The integer nearest to a / b (b # 0), a tie going to the even one: what
\* round() does to a quotient that the float holds exactly.
RoundDiv(a, b) ==
    LET s == IF (a < 0) # (b < 0) THEN -1 ELSE 1
        p == Abs(a)
        q == Abs(b)
        f == p \div q
        r == p % q
        m == IF 2 * r < q THEN f
             ELSE IF 2 * r > q THEN f + 1
             ELSE IF f % 2 = 0 THEN f ELSE f + 1
    IN  s * m

\* int(x): truncation toward zero
Trunc(v) == (IF v < 0 THEN -1 ELSE 1) * ((Abs(v) \div Unit) * Unit)

(***************************************************************************)
(* Binary floating point.  round() is applied to the double the code      *)
(* holds, not to the exact quotient: where the exact quotient falls half   *)
(* way between two roundings, the double, which may lie just below or just *)
(* above it, decides.  The doubles are therefore computed as IEEE 754      *)
(* computes them.  A 53-bit significand is wider than a machine integer,   *)
(* so a natural number is held as its digits in base 2^15, lowest first.   *)
(***************************************************************************)
Limb == 2 ^ 15

\* F(v), with v evaluated before F is applied to it
With(v, F(_)) == CHOOSE out \in {F(x) : x \in {v}} : TRUE

RECURSIVE Big(_)
Big(n) == IF n = 0 THEN <<>> ELSE <<n % Limb>> \o Big(n \div Limb)

RECURSIVE Small(_)
Small(a) == IF a = <<>> THEN 0 ELSE Head(a) + Limb * Small(Tail(a))

RECURSIVE Trim(_)
Trim(a) ==
    IF a # <<>> /\ a[Len(a)] = 0 THEN Trim(SubSeq(a, 1, Len(a) - 1)) ELSE a

RECURSIVE BitLenSmall(_)
BitLenSmall(n) == IF n = 0 THEN 0 ELSE 1 + BitLenSmall(n \div 2)

\* the bits of a digit
LimbBits == BitLenSmall(Limb - 1)

\* the number of binary digits of a
BitLen(a) ==
    IF a = <<>> THEN 0 ELSE LimbBits * (Len(a) - 1) + BitLenSmall(a[Len(a)])

\* the binary digit of weight 2^k
Bit(a, k) ==
    LET i == k \div LimbBits + 1
    IN  IF i > Len(a) THEN 0 ELSE (a[i] \div 2 ^ (k % LimbBits)) % 2

\* a < b
Less(a, b) ==
    IF Len(a) # Len(b) THEN Len(a) < Len(b)
    ELSE LET diff == {i \in 1..Len(a) : a[i] # b[i]}
         IN  /\ diff # {}
             /\ LET i == CHOOSE j \in diff : \A k \in diff : k <= j
                IN  a[i] < b[i]

\* a * c + carry, for c and carry below 2^15
RECURSIVE TimesPlusDigits(_, _, _)
TimesPlusDigits(a, c, carry) ==
    IF a = <<>> THEN Big(carry)
    ELSE LET x == Head(a) * c + carry
         IN  <<x % Limb>> \o TimesPlusDigits(Tail(a), c, x \div Limb)
TimesPlus(a, c, carry) == Trim(TimesPlusDigits(a, c, carry))

\* a - b - borrow, for a >= b + borrow
RECURSIVE MinusDigits(_, _, _)
MinusDigits(a, b, borrow) ==
    IF a = <<>> THEN <<>>
    ELSE LET x == Head(a) - (IF b = <<>> THEN 0 ELSE Head(b)) - borrow
         IN  <<IF x < 0 THEN x + Limb ELSE x>>
             \o MinusDigits(Tail(a), IF b = <<>> THEN <<>> ELSE Tail(b),
                            IF x < 0 THEN 1 ELSE 0)
Minus(a, b) == Trim(MinusDigits(a, b, 0))

\* a + b + carry
RECURSIVE PlusDigits(_, _, _)
PlusDigits(a, b, carry) ==
    IF a = <<>> /\ b = <<>> THEN Big(carry)
    ELSE LET x == (IF a = <<>> THEN 0 ELSE Head(a))
                      + (IF b = <<>> THEN 0 ELSE Head(b)) + carry
         IN  <<x % Limb>>
             \o PlusDigits(IF a = <<>> THEN <<>> ELSE Tail(a),
                           IF b = <<>> THEN <<>> ELSE Tail(b), x \div Limb)
Plus(a, b) == Trim(PlusDigits(a, b, 0))

\* a * 2^k
RECURSIVE Zeros(_)
Zeros(k) == IF k = 0 THEN <<>> ELSE <<0>> \o Zeros(k - 1)
ShiftLeft(a, k) ==
    IF a = <<>> THEN <<>>
    ELSE Zeros(k \div LimbBits) \o TimesPlus(a, 2 ^ (k % LimbBits), 0)

\* division by a divisor c of one digit brings down the digit x of the
\* dividend: above holds the quotient's digits and the remainder so far
ShortDivDigit(c, x, above) ==
    LET y == above.r * Limb + x
    IN  [q |-> <<y \div c>> \o above.q, r |-> y % c]

\* the quotient's digits and the remainder of the digits of n from the i-th
\* up
RECURSIVE ShortDivFrom(_, _, _)
ShortDivFrom(n, c, i) ==
    IF i > Len(n) THEN [q |-> <<>>, r |-> 0]
    ELSE With(ShortDivFrom(n, c, i + 1),
              LAMBDA above : ShortDivDigit(c, n[i], above))

ShortDiv(n, c) ==
    With(ShortDivFrom(n, c, 1), LAMBDA out : [q |-> Trim(out.q), r |-> Big(out.r)])

\* the largest digit g <= guess with g * d <= r
RECURSIVE Fit(_, _, _)
Fit(r, d, guess) ==
    IF Less(r, TimesPlus(d, guess, 0)) THEN Fit(r, d, guess - 1) ELSE guess

\* long division by a divisor d of two digits or more whose top digit is at
\* least Limb / 2 brings down the digit x of the dividend.  The digit of
\* the quotient is guessed from the top two digits of the remainder and the
\* top digit of d, and is then at most two too large.
LongDivDigit(d, x, above) ==
    LET r2 == Trim(<<x>> \o above.r)
        top == Len(d)
        hi == IF Len(r2) > top THEN r2[top + 1] ELSE 0
        mid == IF Len(r2) >= top THEN r2[top] ELSE 0
        guess == (hi * Limb + mid) \div d[top]
    IN  With(Fit(r2, d, IF guess < Limb THEN guess ELSE Limb - 1),
             LAMBDA digit : [q |-> <<digit>> \o above.q,
                             r |-> Minus(r2, TimesPlus(d, digit, 0))])

\* the quotient's digits and the remainder of the digits of n from the i-th
\* up
RECURSIVE LongDivFrom(_, _, _)
LongDivFrom(n, d, i) ==
    IF i > Len(n) THEN [q |-> <<>>, r |-> <<>>]
    ELSE With(LongDivFrom(n, d, i + 1),
              LAMBDA above : LongDivDigit(d, n[i], above))

\* n \div d and n % d (d # 0)
DivMod(n, d) ==
    IF Len(d) = 1 THEN ShortDiv(n, d[1])
    ELSE LET shift == LimbBits - BitLenSmall(d[Len(d)])
         IN  With(ShiftLeft(n, shift), LAMBDA n2 :
             With(ShiftLeft(d, shift), LAMBDA d2 :
             With(LongDivFrom(n2, d2, 1), LAMBDA out :
                  [q |-> Trim(out.q), r |-> ShortDiv(out.r, 2 ^ shift).q])))

\* The double m * 2^e nearest to (p / q) * 2^e0 for p, q > 0, a tie going to
\* the even significand (IEEE 754 round-to-nearest-even): the quotient is
\* taken to 54 or 55 binary digits and cut to 53.
Nearest(p, q, e0) ==
    LET s == 54 + BitLen(q) - BitLen(p)
    IN  With(DivMod(ShiftLeft(p, IF s >= 0 THEN s ELSE 0),
                    ShiftLeft(q, IF s >= 0 THEN 0 ELSE -s)), LAMBDA qr :
        With(ShortDiv(qr.q, 2 ^ (BitLen(qr.q) - 53)), LAMBDA cut :
             LET extra == BitLen(qr.q) - 53
                 low == Small(cut.r)
                 half == 2 ^ (extra - 1)
                 up == \/ low > half
                       \/ low = half /\ (qr.r # <<>> \/ Bit(cut.q, 0) = 1)
             IN  [m |-> IF up THEN TimesPlus(cut.q, 1, 1) ELSE cut.q,
                  e |-> e0 - s + extra]))

\* the double that holds the number v / Unit (v > 0)
Double(v) == Nearest(Big(v), Big(Unit), 0)

\* x / y and x * c on doubles
FloatDiv(x, y) == Nearest(x.m, y.m, x.e - y.e)
FloatTimes(x, c) == With(TimesPlus(x.m, c, 0), LAMBDA p : Nearest(p, Big(1), x.e))

\* round(x, nd) on a double x > 0, as a count of 10^-nd: float.__round__
\* takes the decimal nearest to the double's exact value, a tie going to
\* the even one
FloatRound(x, nd) ==
    LET n == TimesPlus(x.m, 10 ^ nd, 0)
    IN  IF x.e >= 0 THEN Small(ShiftLeft(n, x.e))
        ELSE With(ShiftLeft(Big(1), -x.e), LAMBDA one :
             With(DivMod(n, one), LAMBDA qr :
                  LET twice == TimesPlus(qr.r, 2, 0)
                      f == Small(qr.q)
                  IN  IF Less(twice, one) THEN f
                      ELSE IF Less(one, twice) THEN f + 1
                      ELSE IF f % 2 = 0 THEN f ELSE f + 1))

\* (a / b) * 100 on the doubles that hold a / Unit and b / Unit (a, b > 0)
FloatPct(a, b) ==
    With(Double(a), LAMBDA x :
    With(Double(b), LAMBDA y :
    With(FloatDiv(x, y), LAMBDA q : FloatTimes(q, 100))))

\* round((a / b) * 100, nd) of Python floats, as a count of 10^-nd
FloatRatePct(a, b, nd) == With(FloatPct(a, b), LAMBDA x : FloatRound(x, nd))

\* round((a / b) * 100, nd) of numpy scalars, as a count of 10^-nd:
\* np.float64.__round__ multiplies by 10^nd, takes the nearest integer (a
\* tie going to the even one) and divides again
NumpyFloatRatePct(a, b, nd) ==
    With(FloatPct(a, b), LAMBDA x :
    With(FloatTimes(x, 10 ^ nd), LAMBDA y : FloatRound(y, 0)))

\* the exact quotient (a / b) * 100 falls half way between two multiples of
\* 10^-nd
PctTie(a, b, nd) ==
    LET q == Abs(b) * 10 ^ (FracDigits - nd)
    IN  2 * ((Abs(a) * 100 * Unit) % q) = q

\* Doubles with a sign, for the sum of a column: neg, and the significand
\* and exponent of the absolute value; the significand of 0.0 is empty.
FloatZero == [neg |-> FALSE, m |-> <<>>, e |-> 0]
SignedDouble(v) ==
    IF v = 0 THEN FloatZero
    ELSE With(Double(Abs(v)), LAMBDA x : [neg |-> v < 0, m |-> x.m, e |-> x.e])

\* the double nearest to p * 2^e, with its sign
SignedNearest(neg, p, e) ==
    With(Nearest(p, Big(1), e), LAMBDA r : [neg |-> neg, m |-> r.m, e |-> r.e])

\* x + y on doubles: the exact sum, rounded to the nearest double
FloatAdd(x, y) ==
    IF x.m = <<>> THEN y
    ELSE IF y.m = <<>> THEN x
    ELSE LET e == IF x.e < y.e THEN x.e ELSE y.e
         IN  With(ShiftLeft(x.m, x.e - e), LAMBDA a :
             With(ShiftLeft(y.m, y.e - e), LAMBDA b :
                  IF x.neg # y.neg /\ a = b THEN FloatZero
                  ELSE SignedNearest(
                           IF x.neg = y.neg \/ Less(b, a) THEN x.neg ELSE y.neg,
                           IF x.neg = y.neg THEN Plus(a, b)
                           ELSE IF Less(a, b) THEN Minus(b, a)
                           ELSE Minus(a, b),
                           e)))

\* int(x) of a double: truncation toward zero
FloatTrunc(x) ==
    IF x.m = <<>> THEN 0
    ELSE (IF x.neg THEN -1 ELSE 1)
             * (IF x.e >= 0 THEN Small(ShiftLeft(x.m, x.e))
                ELSE Small(DivMod(x.m, ShiftLeft(Big(1), -x.e)).q))

(***************************************************************************)
(* Strings.                                                                *)
(***************************************************************************)
LowerLetters == <<"a","b","c","d","e","f","g","h","i","j","k","l","m",
                  "n","o","p","q","r","s","t","u","v","w","x","y","z">>
UpperLetters == <<"A","B","C","D","E","F","G","H","I","J","K","L","M",
                  "N","O","P","Q","R","S","T","U","V","W","X","Y","Z">>
Digits == <<"0","1","2","3","4","5","6","7","8","9">>

IsDigit(c) == \E i \in 1..Len(Digits) : Digits[i] = c
DigitVal(c) == (CHOOSE i \in 1..Len(Digits) : Digits[i] = c) - 1

\* str.upper(), one character
UpperChar(c) ==
    IF \E i \in 1..Len(LowerLetters) : LowerLetters[i] = c
    THEN UpperLetters[CHOOSE i \in 1..Len(LowerLetters) : LowerLetters[i] = c]
    ELSE c

\* str.upper()
Upper(s) == [i \in 1..Len(s) |-> UpperChar(s[i])]

\* str.strip() of blanks, as float() does before it parses
RECURSIVE LStrip(_)
LStrip(s) == IF s # <<>> /\ Head(s) = " " THEN LStrip(Tail(s)) ELSE s
RECURSIVE RStrip(_)
RStrip(s) ==
    IF s # <<>> /\ s[Len(s)] = " " THEN RStrip(SubSeq(s, 1, Len(s) - 1)) ELSE s
Strip(s) == RStrip(LStrip(s))

AllDigits(s) == \A i \in 1..Len(s) : IsDigit(s[i])

\* the value of a run of digits
RECURSIVE DigitsVal(_)
DigitsVal(s) ==
    IF s = <<>> THEN 0
    ELSE 10 * DigitsVal(SubSeq(s, 1, Len(s) - 1)) + DigitVal(s[Len(s)])

\* the position of the first "." of s, 0 when it has none
DotPos(s) ==
    IF \E i \in 1..Len(s) : s[i] = "."
    THEN CHOOSE i \in 1..Len(s) : s[i] = "." /\ \A j \in 1..(i - 1) : s[j] # "."
    ELSE 0

\* digits [ "." digits ], with a digit on at least one side
IsDecimal(s) ==
    LET d == DotPos(s)
        ip == IF d = 0 THEN s ELSE SubSeq(s, 1, d - 1)
        fp == IF d = 0 THEN <<>> ELSE SubSeq(s, d + 1, Len(s))
    IN  /\ AllDigits(ip)
        /\ AllDigits(fp)
        /\ Len(ip) + Len(fp) > 0

\* how many digits follow the "."
FracLen(s) == IF DotPos(s) = 0 THEN 0 ELSE Len(s) - DotPos(s)

\* the value of a decimal of at most FracDigits fraction digits, in 1/Unit
DecimalVal(s) ==
    LET d == DotPos(s)
        ip == IF d = 0 THEN s ELSE SubSeq(s, 1, d - 1)
        fp == IF d = 0 THEN <<>> ELSE SubSeq(s, d + 1, Len(s))
    IN  DigitsVal(ip) * Unit + DigitsVal(fp) * (10 ^ (FracDigits - Len(fp)))

\* float(s) of a str: blanks stripped, an optional "-", then "nan" in any
\* case or a decimal; anything else is a ValueError.  (The texts drawn hold
\* no "+", exponent, underscore, "inf" or "infinity", which float() also
\* reads.)
ParseFloat(s) ==
    LET b == Strip(s)
        neg == b # <<>> /\ Head(b) = "-"
        u == IF neg THEN Tail(b) ELSE b
    IN  IF Upper(u) = <<"N","A","N">> THEN Ret(NaN)
        ELSE IF IsDecimal(u)
             THEN Ret(Num((IF neg THEN -1 ELSE 1) * DecimalVal(u)))
             ELSE Raise("ValueError")

\* float(value)
Float(value) ==
    CASE value.t = "str" -> ParseFloat(value.s)
      [] value.t = "none" -> Raise("TypeError")
      [] OTHER -> Ret(value)

(***************************************************************************)
(* DataProcessor (src/dashboard_complete.py) and the cleaning helper of    *)
(* DataHandler.get_environment_stats (src/data_handler.py).                *)
(***************************************************************************)
Sentinels == {<<"N","A">>, <<"N","A","N">>}

\* clean_numeric with "except: return 0": an unparseable value counted as 0
CleanNumericZeroOnError(value) ==
    IF IsStr(value) /\ Upper(value.s) \in Sentinels
    THEN NaN
    ELSE LET f == Float(value)
         IN  IF f.st = "ret" THEN f.val ELSE Whole(0)

\* DataProcessor.clean_numeric(value)
CleanNumeric(value) ==
    IF IsStr(value) /\ Upper(value.s) \in Sentinels
    THEN NaN
    ELSE LET f == Float(value)
         IN  IF f.st = "ret" THEN f.val ELSE NaN

\* clean_numeric(val), local to DataHandler.get_environment_stats
HandlerCleanNumeric(val) ==
    IF IsNa(val)
    THEN NaN
    ELSE LET f == Float(val)
         IN  IF f.st = "ret" THEN f.val ELSE NaN

\* round((numerator / denominator) * 100, nd) for a denominator that is not
\* zero: Python's float arithmetic on two scalars.  Off a tie the double
\* lies within 2^-50 of the exact quotient, far nearer than the quotient is
\* to a tie, and rounds as the exact quotient does; on a tie the double
\* itself is computed and rounded.
RatePct(numerator, denominator, nd) ==
    CASE numerator.t = "none" \/ denominator.t = "none" -> Raise("TypeError")
      [] numerator.t = "nan" \/ denominator.t = "nan" -> Ret(NaN)
      [] OTHER ->
           LET step == 10 ^ (FracDigits - nd)
               sign == IF (numerator.v < 0) # (denominator.v < 0) THEN -1 ELSE 1
           IN  IF PctTie(numerator.v, denominator.v, nd)
               THEN Ret(Num(sign * step * FloatRatePct(Abs(numerator.v),
                                                       Abs(denominator.v), nd)))
               ELSE Ret(Num(RoundDiv(numerator.v * 100 * Unit,
                                     denominator.v * step) * step))

\* calculate_coverage without the pd.isna(denominator) test
CalculateCoverageNoNaCheck(numerator, denominator) ==
    IF IsNum(denominator) /\ denominator.v = 0
    THEN Ret(Whole(0))
    ELSE RatePct(numerator, denominator, 2)

\* DataProcessor.calculate_coverage(numerator, denominator)
CalculateCoverage(numerator, denominator) ==
    IF (IsNum(denominator) /\ denominator.v = 0) \/ IsNa(denominator)
    THEN Ret(Whole(0))
    ELSE RatePct(numerator, denominator, 2)

(***************************************************************************)
(* Tables.  A CSV file is its header and its rows of cells as written: a   *)
(* number, an empty cell (NaN) or text.  A frame is the DataFrame that     *)
(* pd.read_csv makes of it.  Columns meant to hold counts hold numbers and *)
(* empty cells only; text appears in the pollutant and the name columns.   *)
(***************************************************************************)
ZoneName == "Zone Name"
WardName == "Ward Name"
HHCol == "Total number of households (HH)"
SewerageCol == "HH part of the city sewerage network"
ToiletsCol == "Number of Households with toilets"
PublicToiletCol == "Number of Public Toilet "
FreeFemaleCol == "Number of free public toilets - Female"
FreeMaleCol == "Number of free public toilets - Male"
PaidFemaleCol == "Number of paid public toilets - Female"
PaidMaleCol == "Number of paid public toilets - Male"
MonthYearCol == "Month -Year"
PM25Col == "Monthly mean/average concentration - PM2.5"
PM10Col == "Monthly mean concentration - PM10"
NO2Col == "Monthly mean concentration - NO2"
SO2Col == "Monthly mean concentration - SO2"
O3Col == "Monthly mean concentration - O3"
YearCol == "Year"
PopulationCol == "Total Population (in thousands)"
CrimesCol == "Total number of crimes recorded"
IntersectionsCol == "No. of intersections / junctions"
SignalizedCol == "Total number of operational signalized intersections"
UnemployedCol == "No. of unemployed persons (seeking or available for work)"
EmployedCol == "No. of employed persons"
LabourForceCol ==
    "Total labour force in the city (age 15-59) [Employed + Unemployed Persons)"

Table(cols, rows) == [cols |-> cols, rows |-> rows]
Frame(cols, rows) == [t |-> "frame", cols |-> cols, rows |-> rows]
IsFrame(x) == x.t = "frame"

\* df is None or df.empty
NoneOrEmpty(df) == df.t = "none" \/ df.cols = {} \/ df.rows = <<>>

\* the cells of one column, top to bottom
Column(df, col) == [i \in 1..Len(df.rows) |-> df.rows[i][col]]

\* df with column col set to the cells vals (df[col] = vals)
WithColumn(df, col, vals) ==
    [df EXCEPT !.cols = df.cols \cup {col},
               !.rows = [i \in 1..Len(df.rows) |->
                            [c \in df.cols \cup {col} |->
                                IF c = col THEN vals[i] ELSE df.rows[i][c]]]]

\* df[[c1, c2, ...]]
Select(df, cols) ==
    [df EXCEPT !.cols = cols,
               !.rows = [i \in 1..Len(df.rows) |->
                            [c \in cols |-> df.rows[i][c]]]]

\* The texts pd.read_csv reads as a missing cell (its default na_values).
NaValues ==
    { <<>>, <<"N","A">>, <<"N","a","N">>, <<"n","a","n">>,
      <<"-","N","a","N">>, <<"-","n","a","n">>,
      <<"N","/","A">>, <<"n","/","a">>, <<"N","U","L","L">>,
      <<"n","u","l","l">>, <<"N","o","n","e">>, <<"#","N","/","A">>,
      <<"#","N","A">>, <<"<","N","A",">">>,
      <<"#","N","/","A"," ","N","/","A">>,
      <<"-","1",".","#","I","N","D">>, <<"-","1",".","#","Q","N","A","N">>,
      <<"1",".","#","I","N","D">>, <<"1",".","#","Q","N","A","N">> }

ReadCell(c) == IF IsStr(c) /\ c.s \in NaValues THEN NaN ELSE c

\* text that read_csv takes for a number
IsNumericText(s) ==
    LET u == IF s # <<>> /\ Head(s) = "-" THEN Tail(s) ELSE s
    IN  IsDecimal(u)

\* One column as read_csv types it: missing cells first; then, when all the
\* rest are numbers, a numeric column, otherwise the text as it stands.
ReadColumn(cells) ==
    LET na == [i \in 1..Len(cells) |-> ReadCell(cells[i])]
        numeric == \A i \in 1..Len(na) :
                      \/ na[i].t \in {"num", "nan"}
                      \/ IsStr(na[i]) /\ IsNumericText(na[i].s)
    IN  IF numeric
        THEN [i \in 1..Len(na) |->
                 IF IsStr(na[i]) THEN ParseFloat(na[i].s).val ELSE na[i]]
        ELSE na

\* The file system entry of one dataset file.
OkFile(tbl) == [st |-> "ok", tbl |-> tbl]
MissingFile == [st |-> "missing"]        \* os.path.exists(path) is False
UnreadableFile == [st |-> "unreadable"]  \* pd.read_csv(path) raises

\* os.path.exists(path)
Exists(f) == f.st # "missing"

\* pd.read_csv(path)
ReadCsv(f) ==
    IF f.st = "ok"
    THEN LET cols == f.tbl.cols
             n == Len(f.tbl.rows)
             read == [c \in cols |->
                         ReadColumn([i \in 1..n |-> f.tbl.rows[i][c]])]
         IN  Ret(Frame(cols, [i \in 1..n |-> [c \in cols |-> read[c][i]]]))
    ELSE Raise("ReadError")

(***************************************************************************)
(* DataLoader.load_all and DataHandler.load_data.                          *)
(***************************************************************************)
WaterFile == "unified_water_sanitation.csv"
EnvironmentFile == "unified_environment.csv"
CrimesFile == "unified_crimes.csv"
IntersectionsFile == "unified_intersections.csv"
EmploymentFile == "unified_employment.csv"
FileNames ==
    {WaterFile, EnvironmentFile, CrimesFile, IntersectionsFile, EmploymentFile}

\* the `files` dict of DataLoader.load_all, in its order
LoaderFiles ==
    << <<"water_sanitation", WaterFile>>, <<"environment", EnvironmentFile>>,
       <<"crimes", CrimesFile>>, <<"intersections", IntersectionsFile>>,
       <<"employment", EmploymentFile>> >>

\* the `files` dict of DataHandler.load_data, in its order
HandlerFiles ==
    << <<"water", WaterFile>>, <<"environment", EnvironmentFile>>,
       <<"crimes", CrimesFile>>, <<"infrastructure", IntersectionsFile>>,
       <<"employment", EmploymentFile>> >>

\* d[key] = value
Put(d, key, value) ==
    [k \in DOMAIN d \cup {key} |-> IF k = key THEN value ELSE d[k]]

\* One pass of the loading loop without its try/except: the first file that
\* cannot be read ends the loop and the exception escapes.
RECURSIVE LoadLoopUnguarded(_, _, _, _, _)
LoadLoopUnguarded(order, i, fs, rd, d) ==
    IF i > Len(order) THEN [d |-> d, out |-> Ret(None)]
    ELSE LET key == order[i][1]
             f == rd[order[i][2]]
         IN  IF ~Exists(fs[order[i][2]])
             THEN LoadLoopUnguarded(order, i + 1, fs, rd, Put(d, key, None))
             ELSE IF ReadCsv(f).st = "raise"
                  THEN [d |-> d, out |-> ReadCsv(f)]
                  ELSE LoadLoopUnguarded(order, i + 1, fs, rd,
                                         Put(d, key, ReadCsv(f).val))

\* The loading loop binding no key for a file that does not exist
RECURSIVE LoadLoopSkippingMissing(_, _, _, _, _)
LoadLoopSkippingMissing(order, i, fs, rd, d) ==
    IF i > Len(order) THEN [d |-> d, out |-> Ret(None)]
    ELSE LET key == order[i][1]
             f == rd[order[i][2]]
         IN  IF ~Exists(fs[order[i][2]])
             THEN LoadLoopSkippingMissing(order, i + 1, fs, rd, d)
             ELSE LoadLoopSkippingMissing(
                      order, i + 1, fs, rd,
                      Put(d, key, IF ReadCsv(f).st = "ret"
                                  THEN ReadCsv(f).val ELSE None))

\* The loading loop from entry i on: exists -> read_csv, else None; an
\* exception of read_csv is caught and leaves None.  os.path.exists(path)
\* and pd.read_csv(path) are two calls: fs is the directory as the test
\* finds each file, rd the directory as the read finds it (the same where
\* nothing writes the directory meanwhile).  A file removed in between is
\* read all the same, read_csv raises, and the key is bound to None.
RECURSIVE LoadLoop(_, _, _, _, _)
LoadLoop(order, i, fs, rd, d) ==
    IF i > Len(order) THEN [d |-> d, out |-> Ret(None)]
    ELSE LET key == order[i][1]
             f == rd[order[i][2]]
             v == IF Exists(fs[order[i][2]]) /\ ReadCsv(f).st = "ret"
                  THEN ReadCsv(f).val
                  ELSE None
         IN  LoadLoop(order, i + 1, fs, rd, Put(d, key, v))

\* DataLoader.load_all(): the dict it leaves in self.data and returns
LoadAll(fs, rd, d) == LoadLoop(LoaderFiles, 1, fs, rd, d)

\* the read counts after one pass of the loading loop: pd.read_csv(path) is
\* called once on every file of the loop that the test found
CountReads(order, fs, r) ==
    [f \in DOMAIN r |->
        IF \E i \in 1..Len(order) : order[i][2] = f /\ Exists(fs[f])
        THEN r[f] + 1 ELSE r[f]]

\* DataHandler.load_data()
LoadData(fs, rd, d) == LoadLoop(HandlerFiles, 1, fs, rd, d)

(***************************************************************************)
(* Series and DataFrame operations the queries use.                        *)
(***************************************************************************)
Min(a, b) == IF a < b THEN a ELSE b

\* Series.sum(): the numbers added up, missing cells skipped
RECURSIVE SumCells(_)
SumCells(cells) ==
    IF cells = <<>> THEN 0
    ELSE (IF IsNum(Head(cells)) THEN Head(cells).v ELSE 0) + SumCells(Tail(cells))

\* Series.count(): the cells that are not missing
RECURSIVE CountCells(_)
CountCells(cells) ==
    IF cells = <<>> THEN 0
    ELSE (IF IsNum(Head(cells)) THEN 1 ELSE 0) + CountCells(Tail(cells))

\* the first row's cell in place of the column sum
IntFirstRow(df, col) ==
    IF IsNum(df.rows[1][col]) THEN Num(Trunc(df.rows[1][col].v)) ELSE Num(0)

\* Series.sum() on the doubles of a float64 column: the missing cells are
\* taken as 0.0 and the cells are added first to last, each addition rounded
\* (numpy adds an array of fewer than 8 cells in this order)
RECURSIVE FloatSumFrom(_, _, _)
FloatSumFrom(cells, i, acc) ==
    IF i > Len(cells) THEN acc
    ELSE With(IF IsNum(cells[i]) THEN FloatAdd(acc, SignedDouble(cells[i].v))
              ELSE acc,
              LAMBDA next : FloatSumFrom(cells, i + 1, next))
FloatSum(cells) == FloatSumFrom(cells, 1, FloatZero)

\* a cell of the column is a number with a fraction
HasFraction(cells) ==
    \E i \in 1..Len(cells) : IsNum(cells[i]) /\ cells[i].v % Unit # 0

\* int(series.sum()).  Whole numbers add up exactly.  With fractions the
\* double sum differs from the exact sum by far less than a hundredth, so
\* the two truncate alike unless the exact sum is a whole number, which the
\* double sum may miss from below: the doubles are added then.
IntOfSum(cells) ==
    LET exact == SumCells(cells)
    IN  IF HasFraction(cells) /\ exact % Unit = 0
        THEN Whole(FloatTrunc(FloatSum(cells)))
        ELSE Num(Trunc(exact))

\* int(df[col].sum())
IntSum(df, col) == IntOfSum(Column(df, col))

\* the mean taken over every row, a missing cell counting as 0
MeanRoundedOverAllRows(cells, nd) ==
    LET step == 10 ^ (FracDigits - nd)
    IN  IF Len(cells) = 0 THEN NaN
        ELSE Num(RoundDiv(SumCells(cells), Len(cells) * step) * step)

\* round(series.mean(), nd): the mean over the cells that are not missing,
\* NaN when there is none
\* The mean is the double sum divided by the count, and numpy rounds its
\* scalar by multiplying by 10^nd, taking the nearest integer (a tie going
\* to the even one) and dividing again.  The doubles differ from the exact
\* mean by far less than the distance of a mean that is no rounding tie
\* from the nearest tie, so they are computed where the exact mean is a tie.
MeanTie(cells, nd) ==
    LET q == CountCells(cells) * 10 ^ (FracDigits - nd)
    IN  2 * (Abs(SumCells(cells)) % q) = q

\* sum / count on doubles, as the magnitude of the mean (sum # 0)
FloatMean(cells) ==
    With(FloatSum(cells), LAMBDA total :
    With(Double(CountCells(cells) * Unit), LAMBDA n : FloatDiv(total, n)))

MeanRounded(cells, nd) ==
    LET n == CountCells(cells)
        step == 10 ^ (FracDigits - nd)
        exact == SumCells(cells)
    IN  IF n = 0 THEN NaN
        ELSE IF MeanTie(cells, nd)
        THEN Num((IF exact < 0 THEN -1 ELSE 1) * step
                     * With(FloatMean(cells), LAMBDA x :
                       With(FloatTimes(x, 10 ^ nd), LAMBDA y : FloatRound(y, 0))))
        ELSE Num(RoundDiv(exact, n * step) * step)

\* f"{series.mean():.nd f}": the format takes the decimal nearest to the
\* exact value of the double, a tie going to the even one
MeanFormatted(cells, nd) ==
    LET n == CountCells(cells)
        step == 10 ^ (FracDigits - nd)
        exact == SumCells(cells)
    IN  IF n = 0 THEN NaN
        ELSE IF MeanTie(cells, nd)
        THEN Num((IF exact < 0 THEN -1 ELSE 1) * step
                     * With(FloatMean(cells), LAMBDA x : FloatRound(x, nd)))
        ELSE Num(RoundDiv(exact, n * step) * step)

\* series.apply(f)
Apply(cells, f(_)) == [i \in 1..Len(cells) |-> f(cells[i])]

\* The characters of the tables in the order of their code points, and
\* s < t of two str.
CodePoints ==
    <<" ", "#", "-", ".", "/">> \o Digits \o <<"<", ">">>
        \o UpperLetters \o LowerLetters
Ord(c) == CHOOSE i \in 1..Len(CodePoints) : CodePoints[i] = c
RECURSIVE StrLess(_, _)
StrLess(s, t) ==
    IF t = <<>> THEN FALSE
    ELSE IF s = <<>> THEN TRUE
    ELSE IF Head(s) = Head(t) THEN StrLess(Tail(s), Tail(t))
    ELSE Ord(Head(s)) < Ord(Head(t))

\* sort_values orders the values that are there (numbers by size, texts by
\* code points) and promises nothing about equal values (kind="quicksort");
\* the rows whose key is missing come after all of them, in their original
\* order (na_position="last"), ascending or not.
\* The orders it may produce, as permutations p: position -> original index.
IsMissing(x) == ~IsNum(x) /\ ~IsStr(x)
SortOrders(vals, ascending) ==
    { p \in Permutations(1..Len(vals)) :
        \A i, j \in 1..Len(vals) :
            i < j =>
                LET a == vals[p[i]]
                    b == vals[p[j]]
                IN  CASE IsMissing(a) /\ IsMissing(b) -> p[i] < p[j]
                      [] IsMissing(a) /\ ~IsMissing(b) -> FALSE
                      [] ~IsMissing(a) /\ IsMissing(b) -> TRUE
                      [] IsNum(a) /\ IsNum(b) ->
                             IF ascending THEN a.v <= b.v ELSE a.v >= b.v
                      [] IsStr(a) /\ IsStr(b) ->
                             IF ascending THEN ~StrLess(b.s, a.s)
                                          ELSE ~StrLess(a.s, b.s)
                      [] IsNum(a) /\ IsStr(b) -> TRUE
                      [] OTHER -> FALSE }

\* df.sort_values(col, ascending): every frame it may return
SortValues(df, col, ascending) ==
    { [df EXCEPT !.rows = [i \in 1..Len(df.rows) |-> df.rows[p[i]]]] :
        p \in SortOrders(Column(df, col), ascending) }

\* df.head(n)
HeadRows(df, n) == [df EXCEPT !.rows = SubSeq(df.rows, 1, Min(n, Len(df.rows)))]

\* df.tail(n)
TailRows(df, n) ==
    [df EXCEPT !.rows = SubSeq(df.rows, Len(df.rows) - Min(n, Len(df.rows)) + 1,
                               Len(df.rows))]

\* the group keys with the missing key kept as a key of its own
GroupKeysKeepingMissing(df, keycol) ==
    {df.rows[i][keycol] : i \in 1..Len(df.rows)}

\* the group keys of df.groupby(keycol): the distinct keys, missing ones dropped
GroupKeys(df, keycol) ==
    {df.rows[i][keycol] : i \in 1..Len(df.rows)} \ {NaN, None}

\* a group name with its letter case and outer blanks taken away
NormalisedName(x) == IF IsStr(x) THEN Str(Upper(Strip(x.s))) ELSE x

\* the sum of valcol over the rows whose key is k up to letter case and
\* outer blanks
GroupTotalOfNormalisedName(df, keycol, valcol, k) ==
    LET picked == [i \in 1..Len(df.rows) |->
                      IF NormalisedName(df.rows[i][keycol]) = NormalisedName(k)
                      THEN df.rows[i][valcol] ELSE NaN]
    IN  Num(SumCells(picked))

\* the group's value taken from its first row alone, nothing summed
GroupTotalFirstRow(df, keycol, valcol, k) ==
    LET first == CHOOSE i \in 1..Len(df.rows) :
                     /\ df.rows[i][keycol] = k
                     /\ \A j \in 1..(i - 1) : df.rows[j][keycol] # k
    IN  IF IsNum(df.rows[first][valcol]) THEN df.rows[first][valcol] ELSE Num(0)

\* the sum of valcol over the rows whose key is k
GroupTotal(df, keycol, valcol, k) ==
    LET picked == [i \in 1..Len(df.rows) |->
                      IF df.rows[i][keycol] = k THEN df.rows[i][valcol] ELSE NaN]
    IN  Num(SumCells(picked))

\* df.groupby(keycol)[valcol].sum().reset_index(), its columns renamed to
\* (keyname, "Value"), then sort_values("Value", ascending=False): every
\* frame it may return.  Raises KeyError when a column is not in df.
GroupSumSorted(df, keycol, valcol, keyname) ==
    IF keycol \notin df.cols \/ valcol \notin df.cols
    THEN {Raise("KeyError")}
    ELSE LET keys == GroupKeys(df, keycol)
             n == Cardinality(keys)
             orders == { q \in [1..n -> keys] :
                           /\ \A i, j \in 1..n : i # j => q[i] # q[j]
                           /\ \A i, j \in 1..n : i < j =>
                                 GroupTotal(df, keycol, valcol, q[i]).v
                                     >= GroupTotal(df, keycol, valcol, q[j]).v }
         IN  { Ret(Frame({keyname, "Value"},
                         [i \in 1..n |->
                             [c \in {keyname, "Value"} |->
                                 IF c = keyname THEN q[i]
                                 ELSE GroupTotal(df, keycol, valcol, q[i])]])) :
                 q \in orders }

\* try: ... except: return None
OrNone(outcomes) == {IF o.st = "raise" THEN Ret(None) ELSE o : o \in outcomes}

\* get_zone_summary without its try/except
GetZoneSummaryUnguarded(df, value_col) ==
    IF NoneOrEmpty(df) THEN {Ret(None)}
    ELSE GroupSumSorted(df, ZoneName, value_col, ZoneName)

\* DataProcessor.get_zone_summary(df, value_col)
GetZoneSummary(df, value_col) ==
    IF NoneOrEmpty(df) THEN {Ret(None)}
    ELSE OrNone(GroupSumSorted(df, ZoneName, value_col, ZoneName))

TopN == 15

\* get_ward_summary cutting the table to its first top_n rows before grouping
GetWardSummaryTruncatingRows(df, value_col, top_n) ==
    IF NoneOrEmpty(df) THEN {Ret(None)}
    ELSE OrNone(GroupSumSorted(HeadRows(df, top_n), WardName, value_col, WardName))

\* DataProcessor.get_ward_summary(df, value_col, top_n)
GetWardSummary(df, value_col, top_n) ==
    IF NoneOrEmpty(df) THEN {Ret(None)}
    ELSE OrNone({ IF o.st = "ret" THEN Ret(HeadRows(o.val, top_n)) ELSE o :
                    o \in GroupSumSorted(df, WardName, value_col, WardName) })

(***************************************************************************)
(* DashboardApp (src/dashboard_complete.py).  A query is given the dict d  *)
(* of loaded tables and yields the set of outcomes it may have: Ret(value) *)
(* or Raise(exception).                                                    *)
(***************************************************************************)
Dict(m) == [t |-> "dict", d |-> m]
EmptyDict == Dict(NoMapping)
IsEmptyDict(x) == x.t = "dict" /\ DOMAIN x.d = {}

WaterStatCols ==
    {HHCol, SewerageCol, ToiletsCol, PublicToiletCol, FreeFemaleCol,
     FreeMaleCol, PaidFemaleCol, PaidMaleCol}

\* DashboardApp.get_water_sanitation_stats()
GetWaterSanitationStats(d) ==
    LET ws == d["water_sanitation"]
    IN  IF NoneOrEmpty(ws) THEN {Ret(EmptyDict)}
        ELSE IF ~(WaterStatCols \subseteq ws.cols) THEN {Raise("KeyError")}
        ELSE LET hh == IntSum(ws, HHCol)
                 sew == IntSum(ws, SewerageCol)
                 toi == IntSum(ws, ToiletsCol)
                 spct == CalculateCoverage(sew, hh)
                 tpct == CalculateCoverage(toi, hh)
             IN  IF spct.st = "raise" THEN {spct}
                 ELSE IF tpct.st = "raise" THEN {tpct}
                 ELSE {Ret(Dict(
                     [total_households |-> hh,
                      sewerage_coverage |-> sew,
                      toilet_coverage |-> toi,
                      public_toilets |-> IntSum(ws, PublicToiletCol),
                      free_toilets_female |-> IntSum(ws, FreeFemaleCol),
                      free_toilets_male |-> IntSum(ws, FreeMaleCol),
                      paid_toilets_female |-> IntSum(ws, PaidFemaleCol),
                      paid_toilets_male |-> IntSum(ws, PaidMaleCol),
                      sewerage_pct |-> spct.val,
                      toilet_pct |-> tpct.val]))}

\* the columns get_environment_stats adds, in its order: <<source, new>>
StatsPollutants ==
    << <<PM25Col, "PM2.5">>, <<PM10Col, "PM10">>, <<NO2Col, "NO2">>,
       <<SO2Col, "SO2">>, <<O3Col, "O3">> >>

\* the columns get_environment_trend adds
TrendPollutants == << <<PM25Col, "PM2.5">>, <<PM10Col, "PM10">> >>

\* df[new] = df[source].apply(clean_numeric) for the pairs from i on, one
\* after the other; a source column that is not there raises KeyError and
\* leaves the columns added before it.
RECURSIVE AddCleaned(_, _, _)
AddCleaned(df, pairs, i) ==
    IF i > Len(pairs) THEN [df |-> df, out |-> Ret(None)]
    ELSE IF pairs[i][1] \notin df.cols
         THEN [df |-> df, out |-> Raise("KeyError")]
         ELSE AddCleaned(
                  WithColumn(df, pairs[i][2],
                             [r \in 1..Len(df.rows) |->
                                 CleanNumeric(df.rows[r][pairs[i][1]])]),
                  pairs, i + 1)

\* DashboardApp.get_environment_stats(): its outcome, and the dict of tables
\* it leaves (env is self.data['environment'] itself, not a copy)
GetEnvironmentStats(d) ==
    LET env == d["environment"]
    IN  IF NoneOrEmpty(env) THEN [d |-> d, out |-> Ret(EmptyDict)]
        ELSE LET added == AddCleaned(env, StatsPollutants, 1)
                 e == added.df
                 left == [d EXCEPT !["environment"] = e]
             IN  IF added.out.st = "raise" THEN [d |-> left, out |-> added.out]
                 ELSE [d |-> left,
                       out |-> Ret(Dict(
                           [pm25_avg |-> MeanRounded(Column(e, "PM2.5"), 2),
                            pm10_avg |-> MeanRounded(Column(e, "PM10"), 2),
                            no2_avg |-> MeanRounded(Column(e, "NO2"), 2),
                            so2_avg |-> MeanRounded(Column(e, "SO2"), 2),
                            o3_avg |-> MeanRounded(Column(e, "O3"), 2)]))]

\* get_crimes_trend returning the two columns in the order of the table
GetCrimesTrendUnsorted(d) ==
    LET crimes == d["crimes"]
    IN  IF NoneOrEmpty(crimes) THEN {Ret(None)}
        ELSE IF ~({YearCol, CrimesCol} \subseteq crimes.cols)
             THEN {Raise("KeyError")}
             ELSE {Ret(Select(crimes, {YearCol, CrimesCol}))}

\* DashboardApp.get_crimes_trend()
GetCrimesTrend(d) ==
    LET crimes == d["crimes"]
    IN  IF NoneOrEmpty(crimes) THEN {Ret(None)}
        ELSE IF ~({YearCol, CrimesCol} \subseteq crimes.cols)
             THEN {Raise("KeyError")}
             ELSE {Ret(f) : f \in SortValues(Select(crimes, {YearCol, CrimesCol}),
                                             YearCol, TRUE)}

\* DashboardApp.get_intersections_summary()
GetIntersectionsSummary(d) ==
    LET intr == d["intersections"]
    IN  IF NoneOrEmpty(intr) THEN {Ret(EmptyDict)}
        ELSE IF ~({IntersectionsCol, SignalizedCol} \subseteq intr.cols)
             THEN {Raise("KeyError")}
             ELSE {Ret(Dict(
                      [total_intersections |-> IntSum(intr, IntersectionsCol),
                       signalized_intersections |-> IntSum(intr, SignalizedCol),
                       by_zone |-> bz.val,
                       signalized_by_zone |-> sz.val])) :
                     bz \in GetZoneSummary(intr, IntersectionsCol),
                     sz \in GetZoneSummary(intr, SignalizedCol)}

\* a / b * 100 rounded to nd places where a and b are numpy scalars: a zero
\* divisor gives inf, -inf or nan (with a warning), never an exception
NumpyRatePct(a, b, nd) ==
    IF b.v = 0
    THEN IF a.v = 0 THEN NaN ELSE Inf(IF a.v < 0 THEN -1 ELSE 1)
    ELSE IF PctTie(a.v, b.v, nd)
    THEN Num((IF (a.v < 0) # (b.v < 0) THEN -1 ELSE 1) * 10 ^ (FracDigits - nd)
             * NumpyFloatRatePct(Abs(a.v), Abs(b.v), nd))
    ELSE RatePct(a, b, nd).val

EmploymentCols == {UnemployedCol, EmployedCol, LabourForceCol}

\* DashboardApp.get_employment_stats()
GetEmploymentStats(d) ==
    LET emp == d["employment"]
    IN  IF NoneOrEmpty(emp) THEN {Ret(EmptyDict)}
        ELSE IF ~(EmploymentCols \subseteq emp.cols) THEN {Raise("KeyError")}
        ELSE LET row == emp.rows[1]
                 unemployed == row[UnemployedCol]
                 employed == row[EmployedCol]
                 labour_force == row[LabourForceCol]
             IN  IF \E x \in {unemployed, employed, labour_force} : ~IsNum(x)
                 THEN {Raise("ValueError")}      \* int(nan)
                 ELSE {Ret(Dict(
                     [unemployed |-> Num(Trunc(unemployed.v)),
                      employed |-> Num(Trunc(employed.v)),
                      labour_force |-> Num(Trunc(labour_force.v)),
                      unemployment_rate |-> NumpyRatePct(unemployed, labour_force, 2),
                      employment_rate |-> NumpyRatePct(employed, labour_force, 2)]))}

\* DashboardApp.get_water_by_zone()
GetWaterByZone(d) ==
    LET ws == d["water_sanitation"]
    IN  IF NoneOrEmpty(ws) THEN {Ret(None)} ELSE GetZoneSummary(ws, HHCol)

\* DashboardApp.get_water_by_ward()
GetWaterByWard(d) ==
    LET ws == d["water_sanitation"]
    IN  IF NoneOrEmpty(ws) THEN {Ret(None)}
        ELSE GetWardSummary(ws, PublicToiletCol, TopN)

TrendMonths == 12

\* get_environment_trend returning every column its copy of the table has
GetEnvironmentTrendAllColumns(d) ==
    LET env == d["environment"]
    IN  IF NoneOrEmpty(env) THEN {Ret(None)}
        ELSE LET added == AddCleaned(env, TrendPollutants, 1)
             IN  IF added.out.st = "raise" THEN {added.out}
                 ELSE IF MonthYearCol \notin added.df.cols THEN {Raise("KeyError")}
                 ELSE {Ret(TailRows(added.df, TrendMonths))}

\* DashboardApp.get_environment_trend()
GetEnvironmentTrend(d) ==
    LET env == d["environment"]
    IN  IF NoneOrEmpty(env) THEN {Ret(None)}
        ELSE LET added == AddCleaned(env, TrendPollutants, 1)
             IN  IF added.out.st = "raise" THEN {added.out}
                 ELSE IF MonthYearCol \notin added.df.cols THEN {Raise("KeyError")}
                 ELSE {Ret(TailRows(Select(added.df, {MonthYearCol, "PM2.5", "PM10"}),
                                    TrendMonths))}

\* DashboardApp.get_intersections_by_zone()
GetIntersectionsByZone(d) ==
    LET intr == d["intersections"]
    IN  IF NoneOrEmpty(intr) THEN {Ret(None)}
        ELSE GetZoneSummary(intr, IntersectionsCol)

\* InfrastructurePage.render() (src/pages_complete.py): the "Signalization %"
\* it shows, to the one decimal of its format; None when it shows "No data
\* available" instead.
RenderSignalization(d) ==
    { IF o.st = "raise" THEN o
      ELSE IF IsEmptyDict(o.val) THEN Ret(None)
      ELSE IF o.val.d.total_intersections.v = 0 THEN Raise("ZeroDivisionError")
      ELSE RatePct(o.val.d.signalized_intersections,
                   o.val.d.total_intersections, 1) :
        o \in GetIntersectionsSummary(d) }

(***************************************************************************)
(* DataHandler (src/data_handler.py).                                      *)
(***************************************************************************)
\* round((a / b) * 100, nd) if b > 0 else 0
GuardedPct(a, b, nd) == IF b.v > 0 THEN RatePct(a, b, nd).val ELSE Whole(0)

HandlerWaterCols == {HHCol, SewerageCol, ToiletsCol, PublicToiletCol}

\* get_water_stats testing only `df is None`, not df.empty
GetWaterStatsNoEmptyTest(ds) ==
    LET df == ds["water"]
    IN  IF df.t = "none" THEN {Ret(EmptyDict)}
        ELSE IF ~(HandlerWaterCols \subseteq df.cols) THEN {Raise("KeyError")}
        ELSE {Ret(Dict(
                 [total_households |-> IntSum(df, HHCol),
                  sewerage_coverage |-> IntSum(df, SewerageCol),
                  toilet_coverage |-> IntSum(df, ToiletsCol),
                  public_toilets |-> IntSum(df, PublicToiletCol),
                  sewerage_pct |-> GuardedPct(IntSum(df, SewerageCol),
                                              IntSum(df, HHCol), 1),
                  toilet_pct |-> GuardedPct(IntSum(df, ToiletsCol),
                                            IntSum(df, HHCol), 1)]))}

\* DataHandler.get_water_stats()
GetWaterStats(ds) ==
    LET df == ds["water"]
    IN  IF NoneOrEmpty(df) THEN {Ret(EmptyDict)}
        ELSE IF ~(HandlerWaterCols \subseteq df.cols) THEN {Raise("KeyError")}
        ELSE LET total_households == IntSum(df, HHCol)
                 sewerage == IntSum(df, SewerageCol)
                 toilets == IntSum(df, ToiletsCol)
             IN  {Ret(Dict(
                     [total_households |-> total_households,
                      sewerage_coverage |-> sewerage,
                      toilet_coverage |-> toilets,
                      public_toilets |-> IntSum(df, PublicToiletCol),
                      sewerage_pct |-> GuardedPct(sewerage, total_households, 1),
                      toilet_pct |-> GuardedPct(toilets, total_households, 1)]))}

\* round(m, nd) if not np.isnan(m) else 0, m the mean of the cleaned column
HandlerAverage(df, col, nd) ==
    LET m == MeanRounded([i \in 1..Len(df.rows) |->
                             HandlerCleanNumeric(df.rows[i][col])], nd)
    IN  IF m.t = "nan" THEN Whole(0) ELSE m

\* DataHandler.get_environment_stats()
HandlerEnvironmentStats(ds) ==
    LET df == ds["environment"]
    IN  IF NoneOrEmpty(df) THEN {Ret(EmptyDict)}
        ELSE IF ~({PM25Col, PM10Col, NO2Col} \subseteq df.cols)
             THEN {Raise("KeyError")}
             ELSE {Ret(Dict([pm25_avg |-> HandlerAverage(df, PM25Col, 1),
                             pm10_avg |-> HandlerAverage(df, PM10Col, 1),
                             no2_avg |-> HandlerAverage(df, NO2Col, 2)]))}

\* DataHandler.get_crime_data()
GetCrimeData(ds) ==
    LET df == ds["crimes"]
    IN  IF NoneOrEmpty(df) THEN {Ret(None)}
        ELSE IF ~({YearCol, CrimesCol} \subseteq df.cols)
             THEN {Raise("KeyError")}
             ELSE {Ret(f) : f \in SortValues(Select(df, {YearCol, CrimesCol}),
                                             YearCol, TRUE)}

\* DataHandler.get_infrastructure_stats()
GetInfrastructureStats(ds) ==
    LET df == ds["infrastructure"]
    IN  IF NoneOrEmpty(df) THEN {Ret(EmptyDict)}
        ELSE IF ~({IntersectionsCol, SignalizedCol} \subseteq df.cols)
             THEN {Raise("KeyError")}
             ELSE LET total == IntSum(df, IntersectionsCol)
                      signalized == IntSum(df, SignalizedCol)
                  IN  {Ret(Dict(
                          [total_intersections |-> total,
                           signalized_intersections |-> signalized,
                           signalization_pct |-> GuardedPct(signalized, total, 1)]))}

\* DataHandler.get_employment_stats()
HandlerEmploymentStats(ds) ==
    LET df == ds["employment"]
    IN  IF NoneOrEmpty(df) THEN {Ret(EmptyDict)}
        ELSE LET row == df.rows[1]
                 \* int(row[c]): the lookup, then the conversion
                 Failure(c) == IF c \notin df.cols THEN "KeyError"
                               ELSE IF ~IsNum(row[c]) THEN "ValueError"  \* int(nan)
                               ELSE ""
                 order == <<UnemployedCol, EmployedCol, LabourForceCol>>
                 failing == {i \in 1..Len(order) : Failure(order[i]) # ""}
             IN  IF failing # {}
                 THEN {Raise(Failure(order[CHOOSE i \in failing :
                                              \A j \in failing : i <= j]))}
                 ELSE LET unemployed == Num(Trunc(row[UnemployedCol].v))
                          employed == Num(Trunc(row[EmployedCol].v))
                          labour_force == Num(Trunc(row[LabourForceCol].v))
                      IN  {Ret(Dict(
                              [labour_force |-> labour_force,
                               employed |-> employed,
                               unemployed |-> unemployed,
                               unemployment_rate |->
                                   GuardedPct(unemployed, labour_force, 2)]))}

\* DataHandler.get_zone_data(dataset, value_col)
GetZoneData(ds, dataset, value_col) ==
    IF dataset \notin DOMAIN ds THEN {Raise("KeyError")}
    ELSE LET df == ds[dataset]
         IN  IF NoneOrEmpty(df) \/ ZoneName \notin df.cols THEN {Ret(None)}
             ELSE OrNone(GroupSumSorted(df, ZoneName, value_col, "Zone"))

(***************************************************************************)
(* The dataset directory the process starts on.  Every combination of the  *)
(* five files being readable, missing or unreadable is taken with the      *)
(* default tables; the content of one file at a time then ranges over the  *)
(* tables built from the rows below (at most MaxRows rows of crimes, at    *)
(* most MaxWards rows of the other files, one row of employment), and over *)
(* the default table with one column taken away; the environment file     *)
(* also holds the rows of its default table in every order, the water and  *)
(* the intersections file a table of one name in three spellings.          *)
(***************************************************************************)
MaxRows == 3
MaxWards == 2

Text(s) == Str(s)
Z1 == Text(<<"Z", "1">>)
Z2 == Text(<<"Z", "2">>)
W1 == Text(<<"W", "1">>)
W2 == Text(<<"W", "2">>)
W3 == Text(<<"W", "3">>)
\* names that differ from Z1 / W1 in letter case or in a blank at one end
Z1Lower == Text(<<"z", "1">>)
Z1Blank == Text(<<"Z", "1", " ">>)
W1Lower == Text(<<"w", "1">>)
W1Blank == Text(<<" ", "W", "1">>)

WaterCols == {ZoneName, WardName} \cup WaterStatCols
WaterRow(zone, ward, hh, sew, toi, pub) ==
    [c \in WaterCols |->
        CASE c = ZoneName -> zone
          [] c = WardName -> ward
          [] c = HHCol -> hh
          [] c = SewerageCol -> sew
          [] c = ToiletsCol -> toi
          [] c = PublicToiletCol -> pub
          [] OTHER -> Whole(1)]
WaterRows ==
    {WaterRow(Z1, W1, Whole(600), Whole(450), Whole(300), Whole(2)),
     WaterRow(Z1, W2, Whole(400), Whole(300), Whole(200), Whole(3)),
     WaterRow(Z2, W3, Whole(400), Whole(300), Whole(200), Whole(3)),
     WaterRow(Z2, W3, Whole(0), Whole(0), Whole(0), NaN),
     WaterRow(NaN, W1, Whole(600), Whole(450), Whole(300), Whole(2)),
     WaterRow(Z2, NaN, NaN, Whole(3), Whole(0), Whole(0))}
DefaultWater ==
    Table(WaterCols,
          <<WaterRow(Z1, W1, Whole(600), Whole(450), Whole(300), Whole(2)),
            WaterRow(Z2, W3, Whole(400), Whole(300), Whole(200), Whole(3))>>)

\* a water table whose three rows carry the name Z1 / W1 in three spellings
VariantWater ==
    Table(WaterCols,
          <<WaterRow(Z1, W1, Whole(600), Whole(450), Whole(300), Whole(2)),
            WaterRow(Z1Lower, W1Lower, Whole(400), Whole(300), Whole(200), Whole(3)),
            WaterRow(Z1Blank, W1Blank, Whole(300), Whole(200), Whole(100), Whole(1))>>)

\* a water table whose public toilet column holds fractions (0.2, 0.7, 0.1):
\* their sum as doubles is just under 1.  Each row has a zone and a ward of
\* its own.
FractionalWater ==
    Table(WaterCols,
          <<WaterRow(Z1, W1, Whole(600), Whole(450), Whole(300), Num(20)),
            WaterRow(Z1Lower, W2, Whole(400), Whole(300), Whole(200), Num(70)),
            WaterRow(Z2, W3, Whole(400), Whole(300), Whole(200), Num(10))>>)

EnvCols == {MonthYearCol, PM25Col, PM10Col, NO2Col, SO2Col, O3Col}
Month(i) == Text(<<"M", Digits[i + 1]>>)
EnvRow(month, reading) ==
    [c \in EnvCols |->
        CASE c = MonthYearCol -> month
          [] c = PM25Col -> reading
          [] c = PM10Col -> reading
          [] c = NO2Col -> Whole(40)
          [] c = SO2Col -> Whole(6)
          [] OTHER -> Whole(8)]
Readings ==
    {Text(<<"1", "0">>), Text(<<"N", "A">>), Text(<<"n", "a">>),
     Text(<<"a", "b", "c">>)}
DefaultEnvironment ==
    Table(EnvCols, <<EnvRow(Month(1), Text(<<"1", "0">>)),
                     EnvRow(Month(2), Text(<<"N", "A">>)),
                     EnvRow(Month(3), Text(<<"2", "0">>))>>)

\* an environment table whose months are out of order: the PM2.5 readings
\* 0.01, 0.13, 0.01 add up to another double in the order of the file than
\* in the order of the months
UnsortedEnvironment ==
    Table(EnvCols,
          <<EnvRow(Month(2), Text(<<"0", ".", "0", "1">>)),
            EnvRow(Month(3), Text(<<"0", ".", "1", "3">>)),
            EnvRow(Month(1), Text(<<"0", ".", "0", "1">>))>>)

\* the same readings with the month of the first row left empty: the row
\* without a month is sorted behind the two others
MissingMonthEnvironment ==
    Table(EnvCols,
          <<EnvRow(Text(<<>>), Text(<<"0", ".", "0", "1">>)),
            EnvRow(Month(2), Text(<<"0", ".", "1", "3">>)),
            EnvRow(Month(1), Text(<<"0", ".", "0", "1">>))>>)

\* an environment table with readings to two decimals: the mean of PM2.5
\* (1.35) lies half way between two numbers of one decimal, the mean of PM10
\* (0.545) half way between two numbers of two decimals
FractionalEnvironment ==
    Table(EnvCols,
          <<[EnvRow(Month(1), Text(<<"0", ".", "0", "1">>))
                EXCEPT ![PM10Col] = Text(<<"0">>)],
            EnvRow(Month(2), Text(<<"N", "A">>)),
            [EnvRow(Month(3), Text(<<"2", ".", "6", "9">>))
                EXCEPT ![PM10Col] = Text(<<"1", ".", "0", "9">>)]>>)

CrimesCols == {YearCol, CrimesCol}
CrimesRow(year, n) == [c \in CrimesCols |-> IF c = YearCol THEN year ELSE n]
CrimesRows ==
    {CrimesRow(Whole(2021), Whole(300)), CrimesRow(Whole(2019), Whole(100)),
     CrimesRow(NaN, Whole(50))}
DefaultCrimes ==
    Table(CrimesCols, <<CrimesRow(Whole(2019), Whole(100)),
                        CrimesRow(Whole(2021), Whole(300)),
                        CrimesRow(Whole(2020), Whole(200))>>)

IntersectionsCols == {ZoneName, IntersectionsCol, SignalizedCol}
IntersectionsRow(zone, n, sig) ==
    [c \in IntersectionsCols |->
        CASE c = ZoneName -> zone
          [] c = IntersectionsCol -> n
          [] OTHER -> sig]
IntersectionsRows ==
    {IntersectionsRow(Z1, Whole(10), Whole(4)),
     IntersectionsRow(Z2, Whole(6), Whole(3)),
     IntersectionsRow(Z2, Whole(0), Whole(0)),
     IntersectionsRow(NaN, Whole(10), Whole(4)),
     IntersectionsRow(Z2, NaN, Whole(3))}
DefaultIntersections ==
    Table(IntersectionsCols, <<IntersectionsRow(Z1, Whole(10), Whole(4)),
                               IntersectionsRow(Z2, Whole(6), Whole(3))>>)

\* the same three spellings of Z1 in an intersections table
VariantIntersections ==
    Table(IntersectionsCols, <<IntersectionsRow(Z1, Whole(10), Whole(4)),
                               IntersectionsRow(Z1Lower, Whole(6), Whole(3)),
                               IntersectionsRow(Z1Blank, Whole(3), Whole(1))>>)

EmploymentRow(unemployed, employed, labour_force) ==
    [c \in EmploymentCols |->
        CASE c = UnemployedCol -> unemployed
          [] c = EmployedCol -> employed
          [] OTHER -> labour_force]
EmploymentRows ==
    {EmploymentRow(Whole(50), Whole(150), Whole(200)),
     EmploymentRow(Whole(3), Whole(4), Whole(7)),
     EmploymentRow(Whole(0), Whole(0), Whole(0)),
     EmploymentRow(Whole(5), Whole(0), Whole(0)),
     EmploymentRow(Whole(50), Whole(150), NaN),
     EmploymentRow(NaN, Whole(150), Whole(200))}
DefaultEmployment ==
    Table(EmploymentCols, <<EmploymentRow(Whole(50), Whole(150), Whole(200))>>)

\* the sequences of at most n members of S
SeqsUpTo(S, n) == UNION {[1..k -> S] : k \in 0..n}

\* tbl without the column col
DropColumn(tbl, col) ==
    Table(tbl.cols \ {col},
          [i \in 1..Len(tbl.rows) |-> [c \in tbl.cols \ {col} |-> tbl.rows[i][c]]])
Dropped(tbl) == {DropColumn(tbl, c) : c \in tbl.cols}

\* tbl with its rows in every order
Shuffled(tbl) ==
    {Table(tbl.cols, [i \in 1..Len(tbl.rows) |-> tbl.rows[p[i]]]) :
        p \in Permutations(1..Len(tbl.rows))}

DefaultTable(fname) ==
    CASE fname = WaterFile -> DefaultWater
      [] fname = EnvironmentFile -> DefaultEnvironment
      [] fname = CrimesFile -> DefaultCrimes
      [] fname = IntersectionsFile -> DefaultIntersections
      [] OTHER -> DefaultEmployment

Tables(fname) ==
    CASE fname = WaterFile ->
             {Table(WaterCols, rows) : rows \in SeqsUpTo(WaterRows, MaxWards)}
                 \cup Dropped(DefaultWater)
                 \cup {VariantWater, FractionalWater}
      [] fname = EnvironmentFile ->
             {Table(EnvCols, [i \in 1..Len(rs) |-> EnvRow(Month(i), rs[i])]) :
                 rs \in SeqsUpTo(Readings, MaxWards)}
                 \cup Dropped(DefaultEnvironment)
                 \cup Shuffled(DefaultEnvironment)
                 \cup {FractionalEnvironment}
      [] fname = CrimesFile ->
             {Table(CrimesCols, rows) : rows \in SeqsUpTo(CrimesRows, MaxRows)}
                 \cup Dropped(DefaultCrimes)
      [] fname = IntersectionsFile ->
             {Table(IntersectionsCols, rows) :
                 rows \in SeqsUpTo(IntersectionsRows, MaxWards)}
                 \cup Dropped(DefaultIntersections)
                 \cup {VariantIntersections}
      [] OTHER ->
             {Table(EmploymentCols, rows) : rows \in SeqsUpTo(EmploymentRows, 1)}
                 \cup Dropped(DefaultEmployment)

DefaultFiles == [f \in FileNames |-> OkFile(DefaultTable(f))]

Directories ==
    {[f \in FileNames |->
         CASE st[f] = "ok" -> OkFile(DefaultTable(f))
           [] st[f] = "missing" -> MissingFile
           [] OTHER -> UnreadableFile] :
        st \in [FileNames -> {"ok", "missing", "unreadable"}]}
        \cup UNION {{[DefaultFiles EXCEPT ![f] = OkFile(t)] : t \in Tables(f)} :
                       f \in FileNames}

(***************************************************************************)
(* The process: it runs one of the two entry points, app.py on a           *)
(* DashboardApp or main.py on a DataHandler; the store is constructed      *)
(* (it loads the five files), then queries are made in any order.          *)
(***************************************************************************)
Init ==
    /\ files \in Directories
    /\ data = NoMapping
    /\ datasets = NoMapping
    /\ call = Idle
    /\ result = Pending
    /\ reads = [f \in FileNames |-> 0]
    /\ asLoaded = NoMapping

\* DashboardApp(): DataLoader(), DataProcessor(), self.data = load_all(),
\* in a directory fs that nothing else writes while the constructor runs
\* (the process beside a program that writes the directory takes the
\* constructor one file-system call at a time: LoadAllExists and
\* LoadAllReadCsv below).
DashboardAppInit(fs) ==
    /\ LET l == LoadAll(fs, fs, NoMapping)
       IN  /\ data' = l.d
           /\ asLoaded' = l.d
           /\ result' = l.out
    /\ reads' = CountReads(LoaderFiles, fs, reads)
    /\ call' = Call("DashboardApp", "__init__", <<>>)
    /\ UNCHANGED <<files, datasets>>

\* DataHandler(): self.datasets = {}, load_data(); fs as above
DataHandlerInit(fs) ==
    /\ LET l == LoadData(fs, fs, NoMapping)
       IN  /\ datasets' = l.d
           /\ asLoaded' = l.d
           /\ result' = l.out
    /\ reads' = CountReads(HandlerFiles, fs, reads)
    /\ call' = Call("DataHandler", "__init__", <<>>)
    /\ UNCHANGED <<files, data>>

\* one run of app.py: main() constructs the DashboardApp; nothing else
\* writes the directory during this one run
NewDashboardApp ==
    /\ data = NoMapping
    /\ datasets = NoMapping
    /\ DashboardAppInit(files)

\* one run of main.py: main() constructs the DataHandler
NewDataHandler ==
    /\ datasets = NoMapping
    /\ data = NoMapping
    /\ DataHandlerInit(files)

\* a DashboardApp query that leaves the tables alone
AppQuery(op, outcomes) ==
    /\ call' = Call("DashboardApp", op, <<>>)
    /\ result' \in outcomes
    /\ UNCHANGED <<files, data, datasets, reads, asLoaded>>

\* a DataHandler query
HandlerQuery(op, args, outcomes) ==
    /\ call' = Call("DataHandler", op, args)
    /\ result' \in outcomes
    /\ UNCHANGED <<files, data, datasets, reads, asLoaded>>

CallGetWaterSanitationStats ==
    /\ data # NoMapping
    /\ AppQuery("get_water_sanitation_stats", GetWaterSanitationStats(data))

CallGetEnvironmentStats ==
    /\ data # NoMapping
    /\ call' = Call("DashboardApp", "get_environment_stats", <<>>)
    /\ LET r == GetEnvironmentStats(data)
       IN  /\ result' = r.out
           /\ data' = r.d
    /\ UNCHANGED <<files, datasets, reads, asLoaded>>

\* get_crimes_trend reading the crimes file again, not self.data
CallGetCrimesTrendFromFile ==
    /\ data # NoMapping
    /\ AppQuery("get_crimes_trend", GetCrimesTrend(LoadAll(files, files, NoMapping).d))

CallGetCrimesTrend ==
    /\ data # NoMapping
    /\ AppQuery("get_crimes_trend", GetCrimesTrend(data))

CallGetIntersectionsSummary ==
    /\ data # NoMapping
    /\ AppQuery("get_intersections_summary", GetIntersectionsSummary(data))

CallGetEmploymentStats ==
    /\ data # NoMapping
    /\ AppQuery("get_employment_stats", GetEmploymentStats(data))

CallGetWaterByZone ==
    /\ data # NoMapping
    /\ AppQuery("get_water_by_zone", GetWaterByZone(data))

CallGetWaterByWard ==
    /\ data # NoMapping
    /\ AppQuery("get_water_by_ward", GetWaterByWard(data))

CallGetEnvironmentTrend ==
    /\ data # NoMapping
    /\ AppQuery("get_environment_trend", GetEnvironmentTrend(data))

CallGetIntersectionsByZone ==
    /\ data # NoMapping
    /\ AppQuery("get_intersections_by_zone", GetIntersectionsByZone(data))

\* InfrastructurePage(app).render()
CallRenderSignalization ==
    /\ data # NoMapping
    /\ call' = Call("InfrastructurePage", "render", <<>>)
    /\ result' \in RenderSignalization(data)
    /\ UNCHANGED <<files, data, datasets, reads, asLoaded>>

CallGetWaterStats ==
    /\ datasets # NoMapping
    /\ HandlerQuery("get_water_stats", <<>>, GetWaterStats(datasets))

CallHandlerEnvironmentStats ==
    /\ datasets # NoMapping
    /\ HandlerQuery("get_environment_stats", <<>>, HandlerEnvironmentStats(datasets))

CallGetCrimeData ==
    /\ datasets # NoMapping
    /\ HandlerQuery("get_crime_data", <<>>, GetCrimeData(datasets))

CallGetInfrastructureStats ==
    /\ datasets # NoMapping
    /\ HandlerQuery("get_infrastructure_stats", <<>>, GetInfrastructureStats(datasets))

CallHandlerEmploymentStats ==
    /\ datasets # NoMapping
    /\ HandlerQuery("get_employment_stats", <<>>, HandlerEmploymentStats(datasets))

\* app.processor.get_ward_summary(app.data['water_sanitation'], col, top_n)
\* for the top_n of 0..MaxTopN
MaxTopN == 3

CallGetWardSummary ==
    /\ data # NoMapping
    /\ \E top_n \in 0..MaxTopN :
           /\ call' = Call("DataProcessor", "get_ward_summary", <<top_n>>)
           /\ result' \in GetWardSummary(data["water_sanitation"],
                                         PublicToiletCol, top_n)
    /\ UNCHANGED <<files, data, datasets, reads, asLoaded>>

\* the arguments get_zone_data is called with
ZoneDataDatasets == {"water", "infrastructure", "crimes", "traffic"}
ZoneDataColumns == {HHCol, IntersectionsCol}

CallGetZoneData ==
    /\ datasets # NoMapping
    /\ \E dataset \in ZoneDataDatasets, value_col \in ZoneDataColumns :
           HandlerQuery("get_zone_data", <<dataset, value_col>>,
                        GetZoneData(datasets, dataset, value_col))

\* The "Dataset Status" block of show_overview(app): for each key,
\* len(d[key]) if d[key] is not None else 0; d[key] raises KeyError when
\* key is not in d.
DatasetStatus(d, keys) ==
    IF \E i \in 1..Len(keys) : keys[i] \notin DOMAIN d THEN Raise("KeyError")
    ELSE Ret(Dict([k \in {keys[i] : i \in 1..Len(keys)} |->
                      IF d[k] = None THEN Whole(0) ELSE Whole(Len(d[k].rows))]))

\* The "Available Datasets" block of show_overview(data_handler): the
\* record count of each key and the status drawn from it.
HandlerDatasetStatus(ds, keys) ==
    IF \E i \in 1..Len(keys) : keys[i] \notin DOMAIN ds THEN Raise("KeyError")
    ELSE Ret(Dict([k \in {keys[i] : i \in 1..Len(keys)} |->
                      LET n == IF ds[k] = None THEN 0 ELSE Len(ds[k].rows)
                      IN  [Records |-> Whole(n),
                           Status |-> IF n > 0 THEN "Available" ELSE "No Data"]]))

\* the keys show_overview looks up, in app.py and in main.py
AppStatusKeys ==
    <<"water_sanitation", "environment", "crimes", "intersections", "employment">>
MainStatusKeys ==
    <<"water", "environment", "crimes", "infrastructure", "employment">>

\* One statement after another: an exception a statement raises ends the
\* function, what follows runs when the statement returns.
Then(outcomes, rest) ==
    {o \in outcomes : o.st = "raise"}
        \cup (IF \E o \in outcomes : o.st = "ret" THEN rest ELSE {})

\* the "Recent Crimes" metric of show_overview: "N/A", or
\* int(crimes_data.iloc[-1]['Total number of crimes recorded'])
RecentCrimes(trend) ==
    { IF o.val = None \/ o.val.rows = <<>> THEN Ret(Str(<<"N", "/", "A">>))
      ELSE LET cell == o.val.rows[Len(o.val.rows)][CrimesCol]
           IN  IF IsNum(cell) THEN Ret(Num(Trunc(cell.v)))
               ELSE Raise("ValueError") :            \* int(nan)
        o \in {t \in trend : t.st = "ret"} }

\* show_overview(app), app.py: the five queries behind the key metrics (the
\* second one writes the cleaned columns into the environment table), the
\* metrics, then the dataset status table; what it returns or raises and the
\* dict of tables it leaves.
AppShowOverview(d) ==
    With(GetWaterSanitationStats(d), LAMBDA ws :
    With(GetEnvironmentStats(d), LAMBDA env :
    With(GetCrimesTrend(env.d), LAMBDA crimes :
         {[d |-> d, out |-> o] : o \in {w \in ws : w.st = "raise"}}
             \cup (IF \E w \in ws : w.st = "ret"
                   THEN {[d |-> env.d, out |-> o] :
                            o \in Then({env.out},
                                   Then(crimes,
                                   Then(GetIntersectionsSummary(env.d),
                                   Then(GetEmploymentStats(env.d),
                                   Then(RecentCrimes(crimes),
                                        {DatasetStatus(env.d, AppStatusKeys)})))))}
                   ELSE {}))))

\* show_overview(data_handler), main.py: the five queries, the key metrics,
\* then the table of the available datasets
HandlerShowOverview(ds) ==
    With(GetCrimeData(ds), LAMBDA crime_data :
         Then(GetWaterStats(ds),
         Then(HandlerEnvironmentStats(ds),
         Then(crime_data,
         Then(GetInfrastructureStats(ds),
         Then(HandlerEmploymentStats(ds),
         Then(RecentCrimes(crime_data),
              {HandlerDatasetStatus(ds, MainStatusKeys)})))))))

CallAppShowOverview ==
    /\ data # NoMapping
    /\ call' = Call("app", "show_overview", <<>>)
    /\ \E r \in AppShowOverview(data) :
           /\ result' = r.out
           /\ data' = r.d
    /\ UNCHANGED <<files, datasets, reads, asLoaded>>

CallMainShowOverview ==
    /\ datasets # NoMapping
    /\ call' = Call("main", "show_overview", <<>>)
    /\ result' \in HandlerShowOverview(datasets)
    /\ UNCHANGED <<files, data, datasets, reads, asLoaded>>

Next ==
    \/ NewDashboardApp
    \/ NewDataHandler
    \/ CallGetWaterSanitationStats
    \/ CallGetEnvironmentStats
    \/ CallGetCrimesTrend
    \/ CallGetIntersectionsSummary
    \/ CallGetEmploymentStats
    \/ CallGetWaterByZone
    \/ CallGetWaterByWard
    \/ CallGetWardSummary
    \/ CallGetEnvironmentTrend
    \/ CallGetIntersectionsByZone
    \/ CallRenderSignalization
    \/ CallGetWaterStats
    \/ CallHandlerEnvironmentStats
    \/ CallGetCrimeData
    \/ CallGetInfrastructureStats
    \/ CallHandlerEmploymentStats
    \/ CallGetZoneData
    \/ CallAppShowOverview
    \/ CallMainShowOverview

Spec == Init /\ [][Next]_vars

(***************************************************************************)
(* The server process over its lifetime.  Streamlit runs the script again  *)
(* on every interaction of the user: each run of main() constructs the     *)
(* store anew and then renders the page chosen in the sidebar (the         *)
(* overview or one of the pages that query the store).  The constructor    *)
(* is taken one file-system call at a time: os.path.exists(path), then     *)
(* pd.read_csv(path), file by file in the order of the files dict.  While  *)
(* a constructor runs, asLoaded is the dict its loop is filling; the store *)
(* holds that dict when the constructor returns.                           *)
(***************************************************************************)
MaxRuns == 2

\* the directories the process starts in: every file there, or one missing
RunDirectories ==
    {DefaultFiles} \cup {[DefaultFiles EXCEPT ![f] = MissingFile] : f \in FileNames}

\* where a constructor stands: before the os.path.exists or before the
\* pd.read_csv of the next file of its loop
At(obj, pc) == [obj |-> obj, op |-> "__init__", args |-> <<>>, pc |-> pc]
Constructing == call.op = "__init__" /\ result = Pending

\* one more pd.read_csv of file f in the counts r (where they are kept)
CountRead(r, f) == [g \in DOMAIN r |-> IF g = f THEN r[g] + 1 ELSE r[g]]

\* the read counts are kept, the directory is written by nobody else
InitReruns ==
    /\ files \in RunDirectories
    /\ data = NoMapping
    /\ datasets = NoMapping
    /\ call = Idle
    /\ result = Pending
    /\ reads = [f \in FileNames |-> 0]
    /\ asLoaded = NoMapping

\* a run of app.py (the first or a later one): main() reaches
\* `app = DashboardApp()` and load_all() enters its loop on a new dict
RunApp ==
    /\ datasets = NoMapping
    /\ ~Constructing
    /\ \A f \in DOMAIN reads : reads[f] < MaxRuns
    /\ data' = NoMapping
    /\ asLoaded' = NoMapping
    /\ call' = At("DashboardApp", "exists")
    /\ result' = Pending
    /\ UNCHANGED <<files, datasets, reads>>

\* a run of main.py: main() reaches `data_handler = DataHandler()`, which
\* sets self.datasets = {} and enters the loop of load_data()
RunMain ==
    /\ data = NoMapping
    /\ ~Constructing
    /\ \A f \in DOMAIN reads : reads[f] < MaxRuns
    /\ datasets' = NoMapping
    /\ asLoaded' = NoMapping
    /\ call' = At("DataHandler", "exists")
    /\ result' = Pending
    /\ UNCHANGED <<files, data, reads>>

\* The loop has bound a key, d is its dict: it goes on to the test of the
\* next file, or load_all() returns self.data after the last one and
\* DashboardApp.__init__ keeps it in self.data.
LoadAllGoesOn(d) ==
    /\ asLoaded' = d
    /\ IF Cardinality(DOMAIN d) = Len(LoaderFiles)
       THEN /\ data' = d
            /\ call' = Call("DashboardApp", "__init__", <<>>)
            /\ result' = Ret(None)
       ELSE /\ call' = At("DashboardApp", "exists")
            /\ UNCHANGED <<data, result>>

\* if os.path.exists(path): on the file as it is now; else
\* self.data[key] = None
LoadAllExists ==
    /\ call = At("DashboardApp", "exists")
    /\ LET entry == LoaderFiles[Cardinality(DOMAIN asLoaded) + 1]
       IN  IF Exists(files[entry[2]])
           THEN /\ call' = At("DashboardApp", "read_csv")
                /\ UNCHANGED <<data, result, asLoaded>>
           ELSE LoadAllGoesOn(Put(asLoaded, entry[1], None))
    /\ UNCHANGED <<files, datasets, reads>>

\* self.data[key] = pd.read_csv(path) on the file as it is now; except:
\* self.data[key] = None
LoadAllReadCsv ==
    /\ call = At("DashboardApp", "read_csv")
    /\ LET entry == LoaderFiles[Cardinality(DOMAIN asLoaded) + 1]
           read == ReadCsv(files[entry[2]])
       IN  /\ LoadAllGoesOn(Put(asLoaded, entry[1],
                                IF read.st = "ret" THEN read.val ELSE None))
           /\ reads' = CountRead(reads, entry[2])
    /\ UNCHANGED <<files, datasets>>

\* the loop of DataHandler.load_data(), likewise; after the last file
\* load_data() and __init__ return
LoadDataGoesOn(d) ==
    /\ asLoaded' = d
    /\ IF Cardinality(DOMAIN d) = Len(HandlerFiles)
       THEN /\ datasets' = d
            /\ call' = Call("DataHandler", "__init__", <<>>)
            /\ result' = Ret(None)
       ELSE /\ call' = At("DataHandler", "exists")
            /\ UNCHANGED <<datasets, result>>

LoadDataExists ==
    /\ call = At("DataHandler", "exists")
    /\ LET entry == HandlerFiles[Cardinality(DOMAIN asLoaded) + 1]
       IN  IF Exists(files[entry[2]])
           THEN /\ call' = At("DataHandler", "read_csv")
                /\ UNCHANGED <<datasets, result, asLoaded>>
           ELSE LoadDataGoesOn(Put(asLoaded, entry[1], None))
    /\ UNCHANGED <<files, data, reads>>

LoadDataReadCsv ==
    /\ call = At("DataHandler", "read_csv")
    /\ LET entry == HandlerFiles[Cardinality(DOMAIN asLoaded) + 1]
           read == ReadCsv(files[entry[2]])
       IN  /\ LoadDataGoesOn(Put(asLoaded, entry[1],
                                 IF read.st = "ret" THEN read.val ELSE None))
           /\ reads' = CountRead(reads, entry[2])
    /\ UNCHANGED <<files, data>>

\* the page of the run: show_overview, or a page that queries the store
Query ==
    \/ CallAppShowOverview
    \/ CallMainShowOverview
    \/ CallGetWaterSanitationStats
    \/ CallGetEnvironmentStats
    \/ CallGetCrimesTrend
    \/ CallGetIntersectionsSummary
    \/ CallGetEmploymentStats
    \/ CallGetWaterByZone
    \/ CallGetWaterByWard
    \/ CallGetWardSummary
    \/ CallGetEnvironmentTrend
    \/ CallGetIntersectionsByZone
    \/ CallRenderSignalization
    \/ CallGetWaterStats
    \/ CallHandlerEnvironmentStats
    \/ CallGetCrimeData
    \/ CallGetInfrastructureStats
    \/ CallHandlerEmploymentStats
    \/ CallGetZoneData

NextReruns ==
    \/ RunApp
    \/ RunMain
    \/ LoadAllExists
    \/ LoadAllReadCsv
    \/ LoadDataExists
    \/ LoadDataReadCsv
    \/ Query

SpecReruns == InitReruns /\ [][NextReruns]_vars

(***************************************************************************)
(* The same process beside the program that produces the dataset files.    *)
(* That program replaces one file of the directory: it removes the file    *)
(* or writes a new version of it, at any moment, also between two          *)
(* file-system calls of a constructor and between two queries; the other   *)
(* files stay as they were.  Which file it is differs from behaviour to    *)
(* behaviour.  The read counts are not kept here.                          *)
(***************************************************************************)
RewrittenCrimes ==
    Table(CrimesCols, <<CrimesRow(Whole(2022), Whole(400)),
                        CrimesRow(Whole(2021), Whole(300))>>)
RewrittenEmployment ==
    Table(EmploymentCols, <<EmploymentRow(Whole(3), Whole(4), Whole(7))>>)

\* the new version written of each file
RewrittenTable(fname) ==
    CASE fname = WaterFile -> VariantWater
      [] fname = EnvironmentFile -> FractionalEnvironment
      [] fname = CrimesFile -> RewrittenCrimes
      [] fname = IntersectionsFile -> VariantIntersections
      [] OTHER -> RewrittenEmployment

\* every file but f is the original one
OthersUntouched(f) == \A g \in FileNames \ {f} : files[g] = DefaultFiles[g]

InitRuns ==
    /\ files \in RunDirectories
    /\ data = NoMapping
    /\ datasets = NoMapping
    /\ call = Idle
    /\ result = Pending
    /\ reads = NoMapping
    /\ asLoaded = NoMapping

\* the other program removes a dataset file
RemoveFile ==
    /\ \E f \in FileNames :
           /\ OthersUntouched(f)
           /\ Exists(files[f])
           /\ files' = [files EXCEPT ![f] = MissingFile]
    /\ UNCHANGED <<data, datasets, call, result, reads, asLoaded>>

\* the other program creates a dataset file or writes it over
WriteFile ==
    /\ \E f \in FileNames :
           /\ OthersUntouched(f)
           /\ files[f] # OkFile(RewrittenTable(f))
           /\ files' = [files EXCEPT ![f] = OkFile(RewrittenTable(f))]
    /\ UNCHANGED <<data, datasets, call, result, reads, asLoaded>>

NextRuns ==
    \/ RunApp
    \/ RunMain
    \/ LoadAllExists
    \/ LoadAllReadCsv
    \/ LoadDataExists
    \/ LoadDataReadCsv
    \/ RemoveFile
    \/ WriteFile
    \/ Query

SpecRuns == InitRuns /\ [][NextRuns]_vars

(***************************************************************************)
(* The single-script dashboard (src/indore_dashboard.py): load_data reads  *)
(* the eight source files, the script stops when one of them failed, and   *)
(* otherwise renders the page chosen in the sidebar.  Of the pages, the    *)
(* metrics of the Environment page are modelled.  One run of the script is *)
(* followed; the read counts are not kept for its files.                   *)
(***************************************************************************)
\* file_map of load_data, in its order: <<key, file name>>
IndoreFileMap ==
    << <<"city_profile", "D01-CityProfile_25.xls">>,
       <<"unemployment", "D02-UnemploymentRate_17_0.csv">>,
       <<"households", "D03-Households_35.xls">>,
       <<"environment", "D04-Environment_6_2_2.csv">>,
       <<"water_sanitation", "D11-waterAndsanitation_1_1_1.csv">>,
       <<"intersections", "D35-Intersections_6_1.csv">>,
       <<"digital", "D45-DigitalAvailability_20.xls">>,
       <<"crimes", "D47-Crimes_13_1.csv">> >>
IndoreFileNames == {IndoreFileMap[i][2] : i \in 1..Len(IndoreFileMap)}
IndoreFileOf(key) ==
    IndoreFileMap[CHOOSE i \in 1..Len(IndoreFileMap) : IndoreFileMap[i][1] = key][2]

\* load_data(): pd.read_excel / pd.read_csv of each file inside try/except;
\* a file that is read is put under its key, a failure is appended to
\* errors and leaves no key.  Returns (data, errors).
RECURSIVE IndoreLoadLoop(_, _, _, _)
IndoreLoadLoop(i, fs, d, errors) ==
    IF i > Len(IndoreFileMap) THEN [d |-> d, errors |-> errors]
    ELSE LET key == IndoreFileMap[i][1]
             filename == IndoreFileMap[i][2]
             read == ReadCsv(fs[filename])
         IN  IF read.st = "ret"
             THEN IndoreLoadLoop(i + 1, fs, Put(d, key, read.val), errors)
             ELSE IndoreLoadLoop(i + 1, fs, d, Append(errors, filename))

IndoreLoadData(fs) == IndoreLoadLoop(1, fs, NoMapping, <<>>)

\* series.mean() of a column as read: a column of text (object dtype) makes
\* the sum raise TypeError; a numeric column gives the mean of its numbers,
\* NaN when it has none
SeriesMean(cells, nd) ==
    IF \E i \in 1..Len(cells) : IsStr(cells[i])
    THEN Raise("TypeError")
    ELSE Ret(MeanFormatted(cells, nd))

IndorePollutants == <<PM25Col, PM10Col, NO2Col, SO2Col>>

\* The Environment page up to its four metrics: a copy of the table sorted
\* by 'Month -Year', then the mean of each raw column, shown to one
\* decimal.  The first column that fails ends the page with its exception.
RECURSIVE IndoreAverages(_, _, _)
IndoreAverages(env_df, i, shown) ==
    IF i > Len(IndorePollutants) THEN Ret(shown)
    ELSE IF IndorePollutants[i] \notin env_df.cols THEN Raise("KeyError")
    ELSE LET m == SeriesMean(Column(env_df, IndorePollutants[i]), 1)
         IN  IF m.st = "raise" THEN m
             ELSE IndoreAverages(env_df, i + 1, Append(shown, m.val))

\* The "Data Summary" block of the sidebar, which the script runs before the
\* page: when data has a city profile with rows, the number of wards, the sum
\* of 'Total Population (in thousands)' divided by 1000 and formatted to one
\* decimal (the decimal nearest to the double, a tie going to the even one),
\* and len(data).  A profile without the column raises KeyError, a column of
\* text raises TypeError; without a profile or without rows nothing is shown.
TotalPopulation(cells) ==
    With(FloatSum(cells), LAMBDA total :
         IF total.m = <<>> THEN Num(0)
         ELSE With(FloatDiv(total, Double(1000 * Unit)), LAMBDA x :
                   Num((IF total.neg THEN -1 ELSE 1) * (Unit \div 10)
                           * FloatRound(x, 1))))
IndoreSidebar(d) ==
    IF "city_profile" \notin DOMAIN d \/ Len(d["city_profile"].rows) = 0
    THEN Ret(None)
    ELSE LET profile == d["city_profile"]
         IN  IF PopulationCol \notin profile.cols THEN Raise("KeyError")
             ELSE IF \E i \in 1..Len(profile.rows) :
                         IsStr(profile.rows[i][PopulationCol])
             THEN Raise("TypeError")
             ELSE Ret([total_wards |-> Len(profile.rows),
                       total_pop |-> TotalPopulation(Column(profile, PopulationCol)),
                       datasets |-> Cardinality(DOMAIN d)])

\* env_df = data['environment'].copy(); env_df = env_df.sort_values('Month
\* -Year'); then the four means of the sorted copy, each the sum of the
\* column in the sorted order of the rows divided by the count.  A table
\* without the column raises KeyError, a column that mixes numbers and text
\* cannot be ordered (TypeError).  Every outcome the sort leaves open.
IndoreEnvironmentPage(d) ==
    LET env_df == d["environment"]
    IN  IF MonthYearCol \notin env_df.cols THEN {Raise("KeyError")}
        ELSE LET months == Column(env_df, MonthYearCol)
             IN  IF /\ \E i \in 1..Len(months) : IsStr(months[i])
                    /\ \E i \in 1..Len(months) : IsNum(months[i])
                 THEN {Raise("TypeError")}
                 ELSE {IndoreAverages(sorted, 1, <<>>) :
                          sorted \in SortValues(env_df, MonthYearCol, TRUE)}

\* the city profile: one row per ward with its population in thousands
CityProfileCols == {WardName, PopulationCol}
CityProfileRow(ward, pop) ==
    [c \in CityProfileCols |-> IF c = WardName THEN ward ELSE pop]
CityProfileReadings == {Num(84550), Num(120450), Text(<<"N", "A">>), Text(<<"a", "b", "c">>)}
DefaultCityProfile ==
    Table(CityProfileCols, <<CityProfileRow(W1, Num(84550)),
                             CityProfileRow(W2, Num(120450))>>)
CityProfiles ==
    {Table(CityProfileCols,
           [i \in 1..Len(ps) |-> CityProfileRow(IF i = 1 THEN W1 ELSE W2, ps[i])]) :
        ps \in SeqsUpTo(CityProfileReadings, MaxWards)}
        \cup Dropped(DefaultCityProfile)

\* the directory of the script: every combination of the eight files being
\* there or not, and every environment table and every city profile beside
\* seven files that load
IndoreTable(key) ==
    CASE key = "environment" -> DefaultEnvironment
      [] key = "city_profile" -> DefaultCityProfile
      [] key = "crimes" -> DefaultCrimes
      [] key = "unemployment" -> DefaultEmployment
      [] key = "intersections" -> DefaultIntersections
      [] OTHER -> DefaultWater
IndoreDefaultFiles ==
    [f \in IndoreFileNames |->
        OkFile(IndoreTable(
            IndoreFileMap[CHOOSE i \in 1..Len(IndoreFileMap) :
                              IndoreFileMap[i][2] = f][1]))]
IndoreDirectories ==
    {[f \in IndoreFileNames |-> IF f \in there THEN IndoreDefaultFiles[f]
                                               ELSE MissingFile] :
        there \in SUBSET IndoreFileNames}
        \cup {[IndoreDefaultFiles EXCEPT ![IndoreFileOf("environment")] = OkFile(t)] :
                 t \in Tables(EnvironmentFile)
                          \cup {UnsortedEnvironment, MissingMonthEnvironment}}
        \cup {[IndoreDefaultFiles EXCEPT ![IndoreFileOf("city_profile")] = OkFile(t)] :
                 t \in CityProfiles}

InitIndore ==
    /\ files \in IndoreDirectories
    /\ data = NoMapping
    /\ datasets = NoMapping
    /\ call = Idle
    /\ result = Pending
    /\ reads = NoMapping
    /\ asLoaded = NoMapping

\* data, loading_errors = load_data()
CallIndoreLoadData ==
    /\ call = Idle
    /\ LET l == IndoreLoadData(files)
       IN  /\ data' = l.d
           /\ asLoaded' = l.d
           /\ result' = Ret(l.errors)
    /\ call' = Call("indore_dashboard", "load_data", <<>>)
    /\ UNCHANGED <<files, datasets, reads>>

\* if loading_errors: st.error(...); st.stop() -- the run ends here, no
\* page is rendered
IndoreStop ==
    /\ call.op = "load_data"
    /\ result.val # <<>>
    /\ call' = Call("indore_dashboard", "st.stop", <<>>)
    /\ result' = Ret(None)
    /\ UNCHANGED <<files, data, datasets, reads, asLoaded>>

\* with st.sidebar: the page is chosen and the data summary is shown; an
\* exception of the summary ends the run before any page
CallIndoreSidebar ==
    /\ call.op = "load_data"
    /\ result.val = <<>>
    /\ call' = Call("indore_dashboard", "sidebar", <<>>)
    /\ result' = IndoreSidebar(data)
    /\ UNCHANGED <<files, data, datasets, reads, asLoaded>>

\* page == "Environment"
CallIndoreEnvironmentPage ==
    /\ call.op = "sidebar"
    /\ result.st = "ret"
    /\ call' = Call("indore_dashboard", "environment_page", <<>>)
    /\ result' \in IndoreEnvironmentPage(data)
    /\ UNCHANGED <<files, data, datasets, reads, asLoaded>>

NextIndore ==
    \/ CallIndoreLoadData
    \/ IndoreStop
    \/ CallIndoreSidebar
    \/ CallIndoreEnvironmentPage

SpecIndore == InitIndore /\ [][NextIndore]_vars

(***************************************************************************)
(* Two callers on one DashboardApp (threads or requests sharing the        *)
(* object, nothing synchronised).  Each caller runs get_environment_stats  *)
(* or get_environment_trend one statement at a time; the statements of     *)
(* the callers interleave in every order.  Here call[c] is the frame of    *)
(* caller c (the statement it is at, its local env_copy, the columns of    *)
(* the shared table it saw when it last read it) and result[c] what its    *)
(* query returned.                                                         *)
(***************************************************************************)
NumCallers == 2
Callers == 1..NumCallers

SharedEnvironments ==
    {DefaultEnvironment, Table(EnvCols, <<>>)} \cup Dropped(DefaultEnvironment)
SharedDirectories ==
    {[DefaultFiles EXCEPT ![EnvironmentFile] = MissingFile]}
        \cup {[DefaultFiles EXCEPT ![EnvironmentFile] = OkFile(t)] :
                 t \in SharedEnvironments}

\* the frame of a caller inside op, about to run its statement pc
Running(op, pc, env_copy, seen) ==
    [obj |-> "DashboardApp", op |-> op, args |-> <<>>, pc |-> pc,
     env_copy |-> env_copy, seen |-> seen]

ColumnsOf(df) == IF IsFrame(df) THEN df.cols ELSE {}

\* one statement df[new] = df[source].apply(clean_numeric): the table it
\* leaves; KeyError, and the table as it was, when source is not a column
AssignCleaned(df, pair) ==
    IF pair[1] \notin df.cols THEN [df |-> df, out |-> Raise("KeyError")]
    ELSE [df |-> WithColumn(df, pair[2],
                            [r \in 1..Len(df.rows) |->
                                CleanNumeric(df.rows[r][pair[1]])]),
          out |-> Ret(None)]

\* the dict get_environment_stats returns from the table env
EnvironmentAverages(env) ==
    Dict([pm25_avg |-> MeanRounded(Column(env, "PM2.5"), 2),
          pm10_avg |-> MeanRounded(Column(env, "PM10"), 2),
          no2_avg |-> MeanRounded(Column(env, "NO2"), 2),
          so2_avg |-> MeanRounded(Column(env, "SO2"), 2),
          o3_avg |-> MeanRounded(Column(env, "O3"), 2)])

\* the DashboardApp is constructed, no caller is in a query
InitShared ==
    /\ files \in SharedDirectories
    /\ data = LoadAll(files, files, NoMapping).d
    /\ asLoaded = LoadAll(files, files, NoMapping).d
    /\ datasets = NoMapping
    /\ call = [c \in Callers |-> Idle]
    /\ result = [c \in Callers |-> Pending]
    /\ reads = NoMapping

\* caller c is not inside a query
Outside(c) == call[c] = Idle \/ result[c] # Pending
\* caller c is inside op, at statement pc
Inside(c, op) == call[c].op = op /\ result[c] = Pending

\* get_environment_stats: env = self.data['environment'];
\* if env is None or env.empty: return {}
StatsBegin(c) ==
    /\ Outside(c)
    /\ LET env == data["environment"]
       IN  IF NoneOrEmpty(env)
           THEN /\ call' = [call EXCEPT ![c] =
                       Running("get_environment_stats", 0, None, ColumnsOf(env))]
                /\ result' = [result EXCEPT ![c] = Ret(EmptyDict)]
           ELSE /\ call' = [call EXCEPT ![c] =
                       Running("get_environment_stats", 1, None, ColumnsOf(env))]
                /\ result' = [result EXCEPT ![c] = Pending]
    /\ UNCHANGED <<files, data, datasets, reads, asLoaded>>

\* get_environment_stats: one of env['PM2.5'] = ..., ..., env['O3'] = ...,
\* written into the shared table
StatsAssign(c) ==
    /\ Inside(c, "get_environment_stats")
    /\ call[c].pc \in 1..Len(StatsPollutants)
    /\ LET env == data["environment"]
           a == AssignCleaned(env, StatsPollutants[call[c].pc])
       IN  /\ data' = [data EXCEPT !["environment"] = a.df]
           /\ IF a.out.st = "raise"
              THEN /\ result' = [result EXCEPT ![c] = a.out]
                   /\ call' = [call EXCEPT ![c].seen = env.cols]
              ELSE /\ result' = result
                   /\ call' = [call EXCEPT ![c].seen = env.cols,
                                           ![c].pc = @ + 1]
    /\ UNCHANGED <<files, datasets, reads, asLoaded>>

\* get_environment_stats: return {'pm25_avg': round(env['PM2.5'].mean(), 2), ...}
StatsReturn(c) ==
    /\ Inside(c, "get_environment_stats")
    /\ call[c].pc = Len(StatsPollutants) + 1
    /\ LET env == data["environment"]
       IN  /\ result' = [result EXCEPT ![c] = Ret(EnvironmentAverages(env))]
           /\ call' = [call EXCEPT ![c].seen = env.cols]
    /\ UNCHANGED <<files, data, datasets, reads, asLoaded>>

\* get_environment_trend: env = self.data['environment'];
\* if env is None or env.empty: return None; env_copy = env.copy()
TrendBegin(c) ==
    /\ Outside(c)
    /\ LET env == data["environment"]
       IN  IF NoneOrEmpty(env)
           THEN /\ call' = [call EXCEPT ![c] =
                       Running("get_environment_trend", 0, None, ColumnsOf(env))]
                /\ result' = [result EXCEPT ![c] = Ret(None)]
           ELSE /\ call' = [call EXCEPT ![c] =
                       Running("get_environment_trend", 1, env, ColumnsOf(env))]
                /\ result' = [result EXCEPT ![c] = Pending]
    /\ UNCHANGED <<files, data, datasets, reads, asLoaded>>

\* get_environment_trend: env_copy['PM2.5'] = ..., env_copy['PM10'] = ...
TrendAssign(c) ==
    /\ Inside(c, "get_environment_trend")
    /\ call[c].pc \in 1..Len(TrendPollutants)
    /\ LET a == AssignCleaned(call[c].env_copy, TrendPollutants[call[c].pc])
       IN  IF a.out.st = "raise"
           THEN /\ result' = [result EXCEPT ![c] = a.out]
                /\ call' = call
           ELSE /\ result' = result
                /\ call' = [call EXCEPT ![c].env_copy = a.df, ![c].pc = @ + 1]
    /\ UNCHANGED <<files, data, datasets, reads, asLoaded>>

\* get_environment_trend: return env_copy[['Month -Year', 'PM2.5', 'PM10']].tail(12)
TrendReturn(c) ==
    /\ Inside(c, "get_environment_trend")
    /\ call[c].pc = Len(TrendPollutants) + 1
    /\ result' = [result EXCEPT ![c] =
           IF MonthYearCol \notin call[c].env_copy.cols THEN Raise("KeyError")
           ELSE Ret(TailRows(Select(call[c].env_copy,
                                    {MonthYearCol, "PM2.5", "PM10"}),
                             TrendMonths))]
    /\ call' = call
    /\ UNCHANGED <<files, data, datasets, reads, asLoaded>>

NextShared ==
    \E c \in Callers :
        \/ StatsBegin(c)
        \/ StatsAssign(c)
        \/ StatsReturn(c)
        \/ TrendBegin(c)
        \/ TrendAssign(c)
        \/ TrendReturn(c)

SpecShared == InitShared /\ [][NextShared]_vars

(***************************************************************************)
(* UnifiedDatasetCreator (src/datasets/create_unified_dataset.py), the     *)
(* script that writes the files the dashboards load.  Here files is the    *)
(* directory of its source files, data its unified_data, datasets the      *)
(* directory unified/ it writes (file name -> file), and asLoaded the      *)
(* dict a dashboard store then loads from that directory.                  *)
(***************************************************************************)
\* self.excel_files and self.csv_files, in their order: <<key, file name>>
ExcelFiles ==
    << <<"household", "D03-Households_35.xls">>,
       <<"digital", "D45-DigitalAvailability_20.xls">>,
       <<"city_profile", "D01-CityProfile_25.xls">> >>
CsvFiles ==
    << <<"water_sanitation", "D11-waterAndsanitation_1_1_1.csv">>,
       <<"environment", "D04-Environment_6_2_2.csv">>,
       <<"crimes", "D47-Crimes_13_1.csv">>,
       <<"intersections", "D35-Intersections_6_1.csv">>,
       <<"employment", "D02-UnemploymentRate_17_0.csv">> >>

\* pd.read_excel(filepath): the sheet as it stands
ReadExcel(f) ==
    IF f.st = "ok" THEN Ret(Frame(f.tbl.cols, f.tbl.rows)) ELSE Raise("ReadError")

\* load_csv_file / load_excel_file: None when the file is not there or
\* cannot be read (for an Excel file: by neither engine)
LoadCsvFile(f) ==
    IF ~Exists(f) THEN None
    ELSE IF ReadCsv(f).st = "ret" THEN ReadCsv(f).val ELSE None
LoadExcelFile(f) ==
    IF ~Exists(f) THEN None
    ELSE IF ReadExcel(f).st = "ret" THEN ReadExcel(f).val ELSE None

\* one loop of load_all_files from entry i on:
\* df = load(...); if df is not None: self.unified_data[key] = df
RECURSIVE CreatorLoadLoop(_, _, _, _, _)
CreatorLoadLoop(order, i, fs, d, excel) ==
    IF i > Len(order) THEN d
    ELSE LET df == IF excel THEN LoadExcelFile(fs[order[i][2]])
                   ELSE LoadCsvFile(fs[order[i][2]])
         IN  CreatorLoadLoop(order, i + 1, fs,
                             IF df # None THEN Put(d, order[i][1], df) ELSE d,
                             excel)

\* load_all_files(): the Excel files, then the CSV files
LoadAllFiles(fs, d) ==
    CreatorLoadLoop(CsvFiles, 1, fs, CreatorLoadLoop(ExcelFiles, 1, fs, d, TRUE),
                    FALSE)

\* a file name without the "unified_" in front
UnifiedNameWithoutPrefix(dataset_name) == dataset_name \o ".csv"

\* filename = f"unified_{dataset_name}.csv"
UnifiedName(dataset_name) == "unified_" \o dataset_name \o ".csv"

\* a path that exists and can be neither written nor read
LockedFile == [st |-> "locked"]

\* the path unified/ where no directory can be made: a file of that name is
\* in the way, or the directory above cannot be written
Unmakeable == [st |-> "unmakeable"]

\* df.to_csv(filepath, index=False): the table as a file
ToCsv(df) == OkFile(Table(df.cols, df.rows))

\* save_unified_datasets(): the directory unified/ after the loop over
\* unified_data; to_csv raises on a locked path, which is caught and leaves
\* the path as it was
SaveUnifiedDatasets(unified, out) ==
    LET written == {UnifiedName(k) : k \in DOMAIN unified}
        keyOf(n) == CHOOSE k \in DOMAIN unified : UnifiedName(k) = n
    IN  [n \in DOMAIN out \cup written |->
            IF n \in written /\ ~(n \in DOMAIN out /\ out[n] = LockedFile)
            THEN ToCsv(unified[keyOf(n)])
            ELSE out[n]]

\* generate_column_mapping(): for each dataset of unified_data its number
\* of rows, its number of columns and its column names (the dtypes, which
\* the document also lists, are not kept)
GenerateColumnMapping(unified) ==
    [k \in DOMAIN unified |->
        [total_rows |-> Len(unified[k].rows),
         total_columns |-> Cardinality(unified[k].cols),
         columns |-> unified[k].cols]]

\* the reference document: a text file that lists the mapping
ReferenceDocument == "column_mapping.txt"
TextFile(mapping) == [st |-> "text", lists |-> mapping]

\* the directory a store is pointed at, as the loading loops see it
AsDirectory(out) ==
    [f \in FileNames |->
        IF out # Unmakeable /\ f \in DOMAIN out THEN out[f] ELSE MissingFile]

\* a sheet of an Excel source file
ExcelSheet == Table({"Households"}, <<[c \in {"Households"} |-> Whole(5)]>>)

\* the source directories: each CSV source readable (with the default table
\* of its dataset), missing or unreadable, and the three Excel sources all
\* readable, all missing or all unreadable
SourceFile(st, tbl) ==
    CASE st = "ok" -> OkFile(tbl)
      [] st = "missing" -> MissingFile
      [] OTHER -> UnreadableFile
SourceNames ==
    {CsvFiles[i][2] : i \in 1..Len(CsvFiles)}
        \cup {ExcelFiles[i][2] : i \in 1..Len(ExcelFiles)}
SourceDirectories ==
    {[n \in SourceNames |->
         IF \E i \in 1..Len(CsvFiles) : CsvFiles[i][2] = n
         THEN LET i == CHOOSE j \in 1..Len(CsvFiles) : CsvFiles[j][2] = n
              IN  SourceFile(st[i], DefaultTable(LoaderFiles[i][2]))
         ELSE SourceFile(xl, ExcelSheet)] :
        st \in [1..Len(CsvFiles) -> {"ok", "missing", "unreadable"}],
        xl \in {"ok", "missing", "unreadable"}}

\* the path unified/ before the script runs: no directory or an empty one,
\* a directory holding one locked path under one of the names the script
\* may write, or a path where no directory can be made
OutputDirectories ==
    {NoMapping, Unmakeable}
        \cup {[n \in {f} |-> LockedFile] : f \in FileNames \cup {ReferenceDocument}}

InitCreator ==
    /\ files \in SourceDirectories
    /\ datasets \in OutputDirectories
    /\ data = NoMapping
    /\ asLoaded = NoMapping
    /\ call = Idle
    /\ result = Pending
    /\ reads = NoMapping

\* creator = UnifiedDatasetCreator(); creator.load_all_files()
CallLoadAllFiles ==
    /\ call = Idle
    /\ call' = Call("UnifiedDatasetCreator", "load_all_files", <<>>)
    /\ data' = LoadAllFiles(files, NoMapping)
    /\ result' = Ret(None)
    /\ UNCHANGED <<files, datasets, reads, asLoaded>>

\* creator.inspect_all_datasets() prints the tables and changes nothing.
\* unified_dir = creator.save_unified_datasets(): os.makedirs(unified_dir,
\* exist_ok=True) stands before the loop and outside its try, so where the
\* directory cannot be made its OSError leaves the method (and main());
\* otherwise the loop writes the files and the path is returned
CallSaveUnifiedDatasets ==
    /\ call.op = "load_all_files"
    /\ call' = Call("UnifiedDatasetCreator", "save_unified_datasets", <<>>)
    /\ IF datasets = Unmakeable
       THEN /\ result' = Raise("OSError")
            /\ UNCHANGED datasets
       ELSE /\ datasets' = SaveUnifiedDatasets(data, datasets)
            /\ result' = Ret(Str(<<"unified">>))
    /\ UNCHANGED <<files, data, reads, asLoaded>>

\* mapping = creator.generate_column_mapping();
\* create_reference_document(mapping, unified_dir): open(filepath, 'w') in
\* the directory written, no try around it
CallCreateReferenceDocument ==
    /\ call.op = "save_unified_datasets"
    /\ result.st = "ret"
    /\ call' = Call("create_unified_dataset", "create_reference_document", <<>>)
    /\ IF ReferenceDocument \in DOMAIN datasets
             /\ datasets[ReferenceDocument] = LockedFile
       THEN /\ result' = Raise("OSError")
            /\ UNCHANGED datasets
       ELSE /\ datasets' = Put(datasets, ReferenceDocument,
                               TextFile(GenerateColumnMapping(data)))
            /\ result' = Ret(None)
    /\ UNCHANGED <<files, data, reads, asLoaded>>

\* main() of the script is over: an exception left it, or its last call
\* returned
ScriptEnded ==
    \/ call.op = "save_unified_datasets" /\ result.st = "raise"
    \/ call.op = "create_reference_document"

\* DataLoader(the directory written).load_all(), which returns self.data
CallLoadAllOnUnified ==
    /\ ScriptEnded
    /\ call' = Call("DataLoader", "load_all", <<>>)
    /\ LET l == LoadAll(AsDirectory(datasets), AsDirectory(datasets), NoMapping)
       IN  /\ asLoaded' = l.d
           /\ result' = Ret(l.d)
    /\ UNCHANGED <<files, data, datasets, reads>>

\* DataHandler(the directory written): load_data()
CallLoadDataOnUnified ==
    /\ ScriptEnded
    /\ call' = Call("DataHandler", "load_data", <<>>)
    /\ LET l == LoadData(AsDirectory(datasets), AsDirectory(datasets), NoMapping)
       IN  /\ asLoaded' = l.d
           /\ result' = l.out
    /\ UNCHANGED <<files, data, datasets, reads>>

NextCreator ==
    \/ CallLoadAllFiles
    \/ CallSaveUnifiedDatasets
    \/ CallCreateReferenceDocument
    \/ CallLoadAllOnUnified
    \/ CallLoadDataOnUnified

SpecCreator == InitCreator /\ [][NextCreator]_vars

(***************************************************************************)
(* The pure functions on their own: an input is drawn, the function is     *)
(* applied to it.                                                          *)
(***************************************************************************)
MaxArg == 6
MaxStrLen == 4

ExampleArgs == {23, 40, 50, 160, 200}
\* arguments with a fraction, in hundredths
ExampleHundredths == {1, 333}
Alphabet == {"N", "A", "n", "a", "1", ".", "-", " "}
ExampleTexts ==
    {<<"1", "2", ".", "5">>, <<"a", "b", "c">>, <<"1", "0">>, <<"2", "0">>,
     <<"N", "/", "A">>, <<"n", "u", "l", "l">>, <<" ", "1", "2", ".", "5", " ">>,
     <<"-", "2", ".", "2", "5">>, <<"1", "2", ".", "5", "%">>, <<"1", ",", "5">>}

RECURSIVE StringsUpTo(_)
StringsUpTo(n) ==
    IF n = 0 THEN {<<>>}
    ELSE LET shorter == StringsUpTo(n - 1)
         IN  shorter \cup {Append(s, c) : s \in {x \in shorter : Len(x) = n - 1},
                                          c \in Alphabet}

\* A decimal with more fraction digits than Unit resolves has no Num.
Representable(s) ==
    LET b == Strip(s)
        u == IF b # <<>> /\ Head(b) = "-" THEN Tail(b) ELSE b
    IN  IsDecimal(u) => FracLen(u) <= FracDigits

Scalars ==
    {Whole(k) : k \in (-MaxArg..MaxArg) \cup ExampleArgs}
        \cup {Num(v) : v \in ExampleHundredths} \cup {NaN, None}
CleanInputs ==
    {Str(s) : s \in {x \in StringsUpTo(MaxStrLen) : Representable(x)}}
        \cup {Str(s) : s \in ExampleTexts}
        \cup {Num(v) : v \in {-150, 0, 1250}} \cup {NaN, None}

PureCalls ==
    {Call("DataProcessor", "calculate_coverage", <<n, d>>) :
        n \in Scalars, d \in Scalars}
        \cup {Call("DataProcessor", "clean_numeric", <<v>>) : v \in CleanInputs}
        \cup {Call("DataHandler", "handler_clean_numeric", <<v>>) : v \in CleanInputs}

InitPure ==
    /\ files = NoMapping
    /\ data = NoMapping
    /\ datasets = NoMapping
    /\ call \in PureCalls
    /\ result = Pending
    /\ reads = NoMapping
    /\ asLoaded = NoMapping

CallCalculateCoverage ==
    /\ call.op = "calculate_coverage"
    /\ result = Pending
    /\ result' = CalculateCoverage(call.args[1], call.args[2])
    /\ UNCHANGED <<files, data, datasets, call, reads, asLoaded>>

CallCleanNumeric ==
    /\ call.op = "clean_numeric"
    /\ result = Pending
    /\ result' = Ret(CleanNumeric(call.args[1]))
    /\ UNCHANGED <<files, data, datasets, call, reads, asLoaded>>

CallHandlerCleanNumeric ==
    /\ call.op = "handler_clean_numeric"
    /\ result = Pending
    /\ result' = Ret(HandlerCleanNumeric(call.args[1]))
    /\ UNCHANGED <<files, data, datasets, call, reads, asLoaded>>

NextPure ==
    \/ CallCalculateCoverage
    \/ CallCleanNumeric
    \/ CallHandlerCleanNumeric

SpecPure == InitPure /\ [][NextPure]_vars

(***************************************************************************)
(* Properties of the pure functions (checked under SpecPure).              *)
(***************************************************************************)
Called(op) == call.op = op /\ result # Pending

\* C1: calculate_coverage(n, d) returns 0 for every numerator when d is zero
\* or missing; for d > 0 and a number n it returns n/d*100 rounded to the
\* nearest hundredth, so (0, d) gives 0 and (50, 200) gives 25.0.
C1_CoverageContract ==
    Called("calculate_coverage") =>
        LET n == call.args[1]
            d == call.args[2]
        IN  /\ ((IsNum(d) /\ d.v = 0) \/ IsNa(d)) => result = Ret(Whole(0))
            /\ (IsNum(d) /\ d.v > 0 /\ IsNum(n)) =>
                  /\ result.st = "ret"
                  /\ IsNum(result.val)
                  /\ 2 * Abs(result.val.v * d.v - n.v * 100 * Unit) <= d.v
                  /\ (n.v = 0 => result = Ret(Whole(0)))
            /\ (n = Whole(50) /\ d = Whole(200)) => result = Ret(Num(2500))

\* C1 witness: a missing denominator under a non-zero numerator gave 0.
C1_Witness ==
    /\ Called("calculate_coverage")
    /\ call.args = <<Whole(50), NaN>>
    /\ result = Ret(Whole(0))

\* C2: calculate_coverage returns 0 for every non-positive denominator,
\* negative ones included, whatever the number in the numerator.
C2_NonPositiveDenominatorGivesZero ==
    Called("calculate_coverage") =>
        LET n == call.args[1]
            d == call.args[2]
        IN  (IsNum(n) /\ IsNum(d) /\ d.v <= 0) => result = Ret(Whole(0))

\* C3: for every pair of numbers, zero and the missing value,
\* calculate_coverage raises nothing and returns neither NaN nor infinity.
C3_CoverageNeverRaisesNorNaN ==
    Called("calculate_coverage") =>
        /\ result.st = "ret"
        /\ result.val.t = "num"

\* "NA" / "NaN" in any letter case
IsSentinelText(s) ==
    /\ Len(s) \in {2, 3}
    /\ s[1] \in {"N", "n"}
    /\ s[2] \in {"A", "a"}
    /\ Len(s) = 3 => s[3] \in {"N", "n"}

\* C5: clean_numeric maps "NA"/"NaN" in any letter case and every value
\* float() cannot parse to missing, and returns every parseable value as its
\* number ("12.5" gives 12.5, "abc" gives missing).
C5_CleanNumeric ==
    (Called("clean_numeric") \/ Called("handler_clean_numeric")) =>
        LET v == call.args[1]
            sentinel == IsStr(v) /\ IsSentinelText(v.s)
        IN  /\ sentinel => result = Ret(NaN)
            /\ Float(v).st = "raise" => result = Ret(NaN)
            /\ (Float(v).st = "ret" /\ ~sentinel) => result = Ret(Float(v).val)
            /\ v = Str(<<"1", "2", ".", "5">>) => result = Ret(Num(1250))
            /\ v = Str(<<"a", "b", "c">>) => result = Ret(NaN)

\* C5 witness: a lower-case sentinel was cleaned to missing.
C5_Witness ==
    /\ Called("clean_numeric")
    /\ call.args = <<Str(<<"n", "a", "n">>)>>
    /\ result = Ret(NaN)

(***************************************************************************)
(* Properties of loading and of the queries (checked under Spec).          *)
(***************************************************************************)
\* the store the last call was made on, and its dict of tables
OnApp == call.obj \in {"DashboardApp", "InfrastructurePage"}
OnHandler == call.obj = "DataHandler"
Loaded == IF OnHandler THEN datasets ELSE data
Returned == call # Idle /\ result # Pending
Did(obj, op) == call.obj = obj /\ call.op = op /\ result # Pending

\* the key of the table a query reads, in the store it is made on
DatasetOf(op) ==
    CASE op \in {"get_water_sanitation_stats", "get_water_by_zone",
                 "get_water_by_ward", "get_ward_summary"} -> "water_sanitation"
      [] op = "get_water_stats" -> "water"
      [] op \in {"get_environment_stats", "get_environment_trend"} -> "environment"
      [] op \in {"get_crimes_trend", "get_crime_data"} -> "crimes"
      [] op \in {"get_intersections_summary", "get_intersections_by_zone",
                 "render"} -> "intersections"
      [] op = "get_infrastructure_stats" -> "infrastructure"
      [] op = "get_employment_stats" -> "employment"
      [] op = "get_zone_data" -> call.args[1]

\* the table the last query read
QueriedTable == Loaded[DatasetOf(call.op)]

\* the numeric sum of a loaded column, cell by cell
ColumnTotal(df, col) == SumCells(Column(df, col))

\* C4: every percentage/rate the system computes is 0, and nothing is
\* raised, when its denominator (total households, total intersections,
\* labour force) is zero or missing.
C4_RatesZeroOnDegenerateDenominator ==
    /\ (Returned /\ call.op \in {"get_water_sanitation_stats", "get_water_stats"}
          /\ ~NoneOrEmpty(QueriedTable)
          /\ WaterStatCols \subseteq QueriedTable.cols
          /\ ColumnTotal(QueriedTable, HHCol) = 0)
        => /\ result.st = "ret"
           /\ result.val.d.sewerage_pct = Whole(0)
           /\ result.val.d.toilet_pct = Whole(0)
    /\ (Returned /\ call.op \in {"get_infrastructure_stats", "render"}
          /\ ~NoneOrEmpty(QueriedTable)
          /\ IntersectionsCols \subseteq QueriedTable.cols
          /\ ColumnTotal(QueriedTable, IntersectionsCol) = 0)
        => /\ result.st = "ret"
           /\ call.op = "render" => result.val = Whole(0)
           /\ call.op # "render" => result.val.d.signalization_pct = Whole(0)
    /\ (Returned /\ call.op = "get_employment_stats"
          /\ ~NoneOrEmpty(QueriedTable)
          /\ EmploymentCols \subseteq QueriedTable.cols
          /\ QueriedTable.rows[1][LabourForceCol] \in {Whole(0), NaN}
          /\ IsNum(QueriedTable.rows[1][UnemployedCol])
          /\ IsNum(QueriedTable.rows[1][EmployedCol]))
        => /\ result.st = "ret"
           /\ result.val.d.unemployment_rate = Whole(0)
           /\ OnApp => result.val.d.employment_rate = Whole(0)

\* the average r is the nearest multiple of 10^-nd to the mean of the
\* readings of cells that are numbers once cleaned, when there is one
IsMeanOfUsable(r, cells, nd) ==
    LET cleaned == [i \in 1..Len(cells) |-> CleanNumeric(cells[i])]
        usable == {i \in 1..Len(cells) : IsNum(cleaned[i])}
        n == Cardinality(usable)
        total == SumCells(cleaned)
        step == 10 ^ (FracDigits - nd)
    IN  n > 0 => /\ IsNum(r)
                 /\ r.v % step = 0
                 /\ 2 * Abs(r.v * n - total) <= n * step

\* C6: each pollutant average of the environment summary is the mean over
\* the rows whose reading is not missing after cleaning; "NA"/"NaN" and
\* unparseable text count neither in the sum nor in the count (PM2.5
\* readings "10", "NA", "20" give 15.0).
C6_AverageOverUsableReadings ==
    (Returned /\ call.op = "get_environment_stats"
       /\ result.st = "ret" /\ ~IsEmptyDict(result.val)) =>
        LET env == QueriedTable
            avg == result.val.d
        IN  /\ OnApp =>
                  /\ IsMeanOfUsable(avg.pm25_avg, Column(env, PM25Col), 2)
                  /\ IsMeanOfUsable(avg.pm10_avg, Column(env, PM10Col), 2)
                  /\ IsMeanOfUsable(avg.no2_avg, Column(env, NO2Col), 2)
                  /\ IsMeanOfUsable(avg.so2_avg, Column(env, SO2Col), 2)
                  /\ IsMeanOfUsable(avg.o3_avg, Column(env, O3Col), 2)
            /\ OnHandler =>
                  /\ IsMeanOfUsable(avg.pm25_avg, Column(env, PM25Col), 1)
                  /\ IsMeanOfUsable(avg.pm10_avg, Column(env, PM10Col), 1)
                  /\ IsMeanOfUsable(avg.no2_avg, Column(env, NO2Col), 2)
            /\ files[EnvironmentFile] = OkFile(DefaultEnvironment)
                  => avg.pm25_avg = Whole(15)

\* C6 witness: the summary of the file whose PM2.5 cells are "10", "NA",
\* "20" reported the average 15.0.
C6_Witness ==
    /\ Did("DashboardApp", "get_environment_stats")
    /\ files[EnvironmentFile] = OkFile(DefaultEnvironment)
    /\ result.st = "ret"
    /\ result.val.d.pm25_avg = Whole(15)

\* the keys a store holds after loading, with the file of each
StoreFiles == IF OnHandler THEN HandlerFiles ELSE LoaderFiles

\* C7: for every combination of the five files being present, missing or
\* unreadable, loading raises nothing, leaves None for exactly the datasets
\* whose file is missing or unreadable and the table of the file for every
\* other one, wherever the failing files come in the load order.
C7_LoadIsolatedPerDataset ==
    (Returned /\ call.op = "__init__") =>
        /\ result.st = "ret"
        /\ DOMAIN Loaded = {StoreFiles[i][1] : i \in 1..Len(StoreFiles)}
        /\ \A i \in 1..Len(StoreFiles) :
               LET key == StoreFiles[i][1]
                   f == files[StoreFiles[i][2]]
               IN  /\ f.st # "ok" <=> Loaded[key] = None
                   /\ f.st = "ok" =>
                          /\ IsFrame(Loaded[key])
                          /\ Loaded[key].cols = f.tbl.cols
                          /\ Len(Loaded[key].rows) = Len(f.tbl.rows)

\* C7 witness: the first file was unreadable, the second missing, and the
\* third was loaded all the same.
C7_Witness ==
    /\ Did("DashboardApp", "__init__")
    /\ files[WaterFile].st = "unreadable"
    /\ files[EnvironmentFile].st = "missing"
    /\ files[EmploymentFile].st = "unreadable"
    /\ data["water_sanitation"] = None
    /\ IsFrame(data["crimes"])
    /\ IsFrame(data["intersections"])

SummaryOps ==
    {"get_water_sanitation_stats", "get_water_stats", "get_environment_stats",
     "get_intersections_summary", "get_infrastructure_stats",
     "get_employment_stats"}

\* C8: on an absent (None) or empty dataset each summary operation returns
\* an empty mapping and raises nothing.
C8_SummaryOfAbsentIsEmpty ==
    (Returned /\ call.op \in SummaryOps /\ NoneOrEmpty(QueriedTable)) =>
        /\ result.st = "ret"
        /\ IsEmptyDict(result.val)

\* C8 witness: the water summary of a file that holds a header and no row.
C8_Witness ==
    /\ Did("DataHandler", "get_water_stats")
    /\ IsFrame(datasets["water"])
    /\ datasets["water"].rows = <<>>
    /\ result.st = "ret"
    /\ IsEmptyDict(result.val)

GroupingOps ==
    {"get_water_by_zone", "get_water_by_ward", "get_intersections_by_zone",
     "get_zone_data"}
TrendOps == {"get_crimes_trend", "get_crime_data", "get_environment_trend"}
GroupColumnOf(op) == IF op = "get_water_by_ward" THEN WardName ELSE ZoneName

\* C9: every grouping and trend query returns None, raising nothing, when
\* its dataset is absent or its table empty; a grouping query does so too
\* when its grouping column is not in the table.
C9_GroupingOfAbsentIsNone ==
    (Returned /\ call.op \in GroupingOps \cup TrendOps
       /\ DatasetOf(call.op) \in DOMAIN Loaded) =>
        ((\/ NoneOrEmpty(QueriedTable)
          \/ /\ call.op \in GroupingOps
             /\ GroupColumnOf(call.op) \notin QueriedTable.cols)
            => result = Ret(None))

\* C9 witness: the zone breakdown of a water table without "Zone Name".
C9_Witness ==
    /\ Did("DashboardApp", "get_water_by_zone")
    /\ IsFrame(data["water_sanitation"])
    /\ data["water_sanitation"].rows # <<>>
    /\ ZoneName \notin data["water_sanitation"].cols
    /\ result = Ret(None)

\* C10: no query method propagates an exception, whatever the data problem:
\* a table that lacks an expected column, a cell of the wrong kind, a
\* dataset name without a loaded table.
C10_QueriesNeverRaise ==
    (Returned /\ call.obj \in {"DashboardApp", "DataHandler"}
       /\ call.op # "__init__")
        => result.st = "ret"

\* the column of the table a grouping query sums, and the name its result
\* gives the key column
ValueColumnOf(op) ==
    CASE op = "get_water_by_zone" -> HHCol
      [] op = "get_water_by_ward" -> PublicToiletCol
      [] op = "get_ward_summary" -> PublicToiletCol
      [] op = "get_intersections_by_zone" -> IntersectionsCol
      [] op = "get_zone_data" -> call.args[2]
KeyNameOf(op) ==
    CASE op \in {"get_water_by_ward", "get_ward_summary"} -> WardName
      [] op = "get_zone_data" -> "Zone"
      [] OTHER -> ZoneName

\* the distinct keys of the rows of df that have one
KeysOf(df, keycol) ==
    {df.rows[i][keycol] : i \in {j \in 1..Len(df.rows) : ~IsNa(df.rows[j][keycol])}}

\* the numbers of valcol in the rows 1..n of df whose key is k, added up
RECURSIVE TotalOfKey(_, _, _, _, _)
TotalOfKey(df, keycol, valcol, k, n) ==
    IF n = 0 THEN 0
    ELSE TotalOfKey(df, keycol, valcol, k, n - 1)
           + (IF df.rows[n][keycol] = k /\ IsNum(df.rows[n][valcol])
              THEN df.rows[n][valcol].v ELSE 0)

\* the rows of a grouping result are in non-increasing order of "Value"
Descending(rows) ==
    \A i, j \in 1..Len(rows) : i < j => rows[i]["Value"].v >= rows[j]["Value"].v

\* C11: a grouping result (zone summary, get_zone_data) has exactly one
\* entry per distinct group key of the table, each entry's value is the sum
\* of the value column over the rows with that key, and the entries are in
\* non-increasing order of value.  (A row without a key has no group key.)
C11_GroupingSumsPerKeySortedDescending ==
    (Returned
       /\ call.op \in {"get_water_by_zone", "get_intersections_by_zone",
                       "get_zone_data"}
       /\ result.st = "ret" /\ result.val # None) =>
        LET t == QueriedTable
            keycol == GroupColumnOf(call.op)
            name == KeyNameOf(call.op)
            out == result.val.rows
        IN  /\ result.val.cols = {name, "Value"}
            /\ Len(out) = Cardinality(KeysOf(t, keycol))
            /\ {out[i][name] : i \in 1..Len(out)} = KeysOf(t, keycol)
            /\ \A i \in 1..Len(out) :
                   out[i]["Value"] =
                       Num(TotalOfKey(t, keycol, ValueColumnOf(call.op),
                                      out[i][name], Len(t.rows)))
            /\ Descending(out)

\* C11 witness: two rows of zone Z1 (600 and 400 households) came out as the
\* one entry Z1 = 1000.
C11_Witness ==
    /\ Did("DashboardApp", "get_water_by_zone")
    /\ IsFrame(data["water_sanitation"])
    /\ Len(data["water_sanitation"].rows) = 2
    /\ result.st = "ret" /\ result.val # None
    /\ result.val.rows = <<[c \in {ZoneName, "Value"} |->
                              IF c = ZoneName THEN Z1 ELSE Whole(1000)]>>

\* C12: get_ward_summary with top_n = k returns min(k, number of distinct
\* wards) entries, each a ward with its summed value, in non-increasing
\* order, and no ward left out has a larger sum than a ward shown: the cut
\* is made on the sorted groups, not on the rows of the table.
C12_TopNAfterSorting ==
    (Returned /\ call.op \in {"get_ward_summary", "get_water_by_ward"}
       /\ result.st = "ret" /\ result.val # None) =>
        LET t == QueriedTable
            k == IF call.op = "get_ward_summary" THEN call.args[1] ELSE TopN
            wards == KeysOf(t, WardName)
            out == result.val.rows
            shown == {out[i][WardName] : i \in 1..Len(out)}
            total(w) == TotalOfKey(t, WardName, PublicToiletCol, w, Len(t.rows))
        IN  /\ Len(out) = Min(k, Cardinality(wards))
            /\ Cardinality(shown) = Len(out)
            /\ shown \subseteq wards
            /\ \A i \in 1..Len(out) : out[i]["Value"] = Num(total(out[i][WardName]))
            /\ Descending(out)
            /\ \A w \in wards \ shown : \A v \in shown : total(w) <= total(v)

\* C12 witness: of the wards W1 (2 toilets, first row) and W2 (3 toilets),
\* top_n = 1 returned W2 alone.
C12_Witness ==
    /\ Did("DataProcessor", "get_ward_summary")
    /\ call.args = <<1>>
    /\ IsFrame(data["water_sanitation"])
    /\ Len(data["water_sanitation"].rows) = 2
    /\ WardName \in data["water_sanitation"].cols
    /\ data["water_sanitation"].rows[1][WardName] = W1
    /\ result.st = "ret" /\ result.val # None
    /\ result.val.rows = <<[c \in {WardName, "Value"} |->
                              IF c = WardName THEN W2 ELSE Whole(3)]>>

\* the rows out are the rows of df, cut to the columns cols, in some order:
\* none dropped, none duplicated, no cell moved to another row
SameRows(out, df, cols) ==
    /\ Len(out) = Len(df.rows)
    /\ \E p \in Permutations(1..Len(out)) :
           \A i \in 1..Len(out) : out[i] = [c \in cols |-> df.rows[p[i]][c]]

\* rows are in ascending order of the numbers of column col; a row without
\* one comes after every row that has one
Ascending(rows, col) ==
    \A i, j \in 1..Len(rows) :
        i < j => /\ IsNum(rows[j][col]) => IsNum(rows[i][col])
                 /\ IsNum(rows[i][col]) /\ IsNum(rows[j][col])
                        => rows[i][col].v <= rows[j][col].v

\* C13: the crimes trend holds exactly the rows of the crimes table, each
\* Year with its own count, in ascending order of Year, whatever the order
\* of the rows in the file; years 2019, 2021, 2020 with counts 100, 300, 200
\* give (2019,100), (2020,200), (2021,300).
C13_CrimesTrendSortedByYear ==
    (Returned /\ call.op \in {"get_crimes_trend", "get_crime_data"}
       /\ result.st = "ret" /\ result.val # None) =>
        /\ result.val.cols = {YearCol, CrimesCol}
        /\ SameRows(result.val.rows, QueriedTable, {YearCol, CrimesCol})
        /\ Ascending(result.val.rows, YearCol)
        /\ files[CrimesFile] = OkFile(DefaultCrimes) =>
               result.val.rows = <<CrimesRow(Whole(2019), Whole(100)),
                                   CrimesRow(Whole(2020), Whole(200)),
                                   CrimesRow(Whole(2021), Whole(300))>>

\* C13 witness: the file with the years 2019, 2021, 2020 came out in the
\* order 2019, 2020, 2021, each year with its count.
C13_Witness ==
    /\ Did("DashboardApp", "get_crimes_trend")
    /\ files[CrimesFile] = OkFile(DefaultCrimes)
    /\ result.st = "ret" /\ result.val # None
    /\ result.val.rows = <<CrimesRow(Whole(2019), Whole(100)),
                           CrimesRow(Whole(2020), Whole(200)),
                           CrimesRow(Whole(2021), Whole(300))>>

\* the place of a 'Month -Year' text in the order of the months
MonthNumber(m) == CHOOSE i \in 0..9 : Month(i) = m

\* C14: the rows of the environment trend are in ascending order of
\* 'Month -Year', whatever the order of the rows of the environment table.
C14_EnvironmentTrendSortedByMonth ==
    (Returned /\ call.op = "get_environment_trend"
       /\ result.st = "ret" /\ result.val # None) =>
        LET out == result.val.rows
        IN  \A i, j \in 1..Len(out) :
                i < j => MonthNumber(out[i][MonthYearCol])
                            <= MonthNumber(out[j][MonthYearCol])

\* pct is the multiple of 10^-nd nearest to part / whole * 100, part and
\* whole being sums of whole numbers
IsCoverageOf(pct, part, whole, nd) ==
    LET step == 10 ^ (FracDigits - nd)
        p == part \div Unit
        w == whole \div Unit
    IN  /\ IsNum(pct)
        /\ pct.v % step = 0
        /\ 2 * Abs(pct.v * w - p * 100 * Unit) <= w * step

\* C15: the water summary's sewerage_pct is the coverage ratio of the sum of
\* the sewerage-connected households over the sum of the households, both
\* taken over all rows (750 of 1000 give 75.0), and toilet_pct is the same
\* ratio for the households with toilets.
C15_WaterPercentagesFromColumnSums ==
    (Returned /\ call.op \in {"get_water_sanitation_stats", "get_water_stats"}
       /\ result.st = "ret" /\ ~IsEmptyDict(result.val)) =>
        LET t == QueriedTable
            hh == ColumnTotal(t, HHCol)
            sew == ColumnTotal(t, SewerageCol)
            toi == ColumnTotal(t, ToiletsCol)
            nd == IF OnHandler THEN 1 ELSE 2
            stats == result.val.d
        IN  /\ stats.total_households = Num(hh)
            /\ stats.sewerage_coverage = Num(sew)
            /\ stats.toilet_coverage = Num(toi)
            /\ hh > 0 => /\ IsCoverageOf(stats.sewerage_pct, sew, hh, nd)
                         /\ IsCoverageOf(stats.toilet_pct, toi, hh, nd)
            /\ (hh = 1000 * Unit /\ sew = 750 * Unit)
                   => stats.sewerage_pct = Whole(75)

\* C15 witness: two rows with 600 + 400 households, 450 + 300 of them on the
\* sewerage network and 300 + 200 with toilets, gave 75.0 and 50.0.
C15_Witness ==
    /\ Did("DashboardApp", "get_water_sanitation_stats")
    /\ files[WaterFile] = OkFile(DefaultWater)
    /\ result.st = "ret"
    /\ result.val.d.total_households = Whole(1000)
    /\ result.val.d.sewerage_pct = Whole(75)
    /\ result.val.d.toilet_pct = Whole(50)

\* C16: no query mutates a loaded table: after any sequence of queries on
\* a DashboardApp or a DataHandler every loaded table has the columns and
\* the cells it had when the constructor returned.
C16_QueriesLeaveTablesAsLoaded ==
    /\ data # NoMapping => data = asLoaded
    /\ datasets # NoMapping => datasets = asLoaded

(***************************************************************************)
(* Properties of the process over its lifetime (C17 checked under          *)
(* SpecRuns, C18 under SpecReruns).                                        *)
(***************************************************************************)
\* the outcomes the query last made may have on the tables d
OutcomesOn(d) ==
    IF call.op = "show_overview"
    THEN IF call.obj = "main" THEN HandlerShowOverview(d)
         ELSE {r.out : r \in AppShowOverview(d)}
    ELSE IF call.obj = "DataHandler"
    THEN CASE call.op = "get_water_stats" -> GetWaterStats(d)
           [] call.op = "get_environment_stats" -> HandlerEnvironmentStats(d)
           [] call.op = "get_crime_data" -> GetCrimeData(d)
           [] call.op = "get_infrastructure_stats" -> GetInfrastructureStats(d)
           [] call.op = "get_employment_stats" -> HandlerEmploymentStats(d)
           [] call.op = "get_zone_data" ->
                  GetZoneData(d, call.args[1], call.args[2])
    ELSE CASE call.op = "get_water_sanitation_stats" -> GetWaterSanitationStats(d)
           [] call.op = "get_environment_stats" -> {GetEnvironmentStats(d).out}
           [] call.op = "get_crimes_trend" -> GetCrimesTrend(d)
           [] call.op = "get_intersections_summary" -> GetIntersectionsSummary(d)
           [] call.op = "get_employment_stats" -> GetEmploymentStats(d)
           [] call.op = "get_water_by_zone" -> GetWaterByZone(d)
           [] call.op = "get_water_by_ward" -> GetWaterByWard(d)
           [] call.op = "get_ward_summary" ->
                  GetWardSummary(d["water_sanitation"], PublicToiletCol,
                                 call.args[1])
           [] call.op = "get_environment_trend" -> GetEnvironmentTrend(d)
           [] call.op = "get_intersections_by_zone" -> GetIntersectionsByZone(d)
           [] call.op = "render" -> RenderSignalization(d)

IsQuery ==
    /\ call.obj \in {"DashboardApp", "DataHandler", "DataProcessor",
                     "InfrastructurePage"}
    /\ call.op # "__init__"
    /\ result # Pending

\* C17: once the store is constructed no query reads the file system:
\* whatever was removed, created or rewritten since, a query (and
\* show_overview, which makes five of them) returns a result the tables as
\* loaded determine.
C17_QueriesAnswerFromLoadedTables ==
    (IsQuery \/ Did("app", "show_overview") \/ Did("main", "show_overview"))
        => result \in OutcomesOn(asLoaded)

\* C17 witness: the crimes file was removed after the store had loaded it,
\* and the crimes trend still returned its three rows.
C17_Witness ==
    /\ Did("DashboardApp", "get_crimes_trend")
    /\ files[CrimesFile] = MissingFile
    /\ result.st = "ret" /\ result.val # None
    /\ Len(result.val.rows) = 3

\* C18: each dataset file is read at most once in the lifetime of the
\* process, however often main() runs: no file has been the argument of
\* pd.read_csv twice.
C18_EachFileReadAtMostOnce ==
    \A f \in DOMAIN reads : reads[f] <= 1

(***************************************************************************)
(* Properties of the single-script dashboard (checked under SpecIndore).   *)
(***************************************************************************)
\* C19: a load failure of one dataset is never fatal: in every dashboard
\* variant the views of the datasets that did load are still served, so no
\* run is stopped for a loading error while a dataset is loaded.
C19_LoadFailureNeverStopsTheRun ==
    ~(/\ Did("indore_dashboard", "st.stop")
      /\ DOMAIN data # {})

\* C20: every pollutant average is taken over values passed through
\* clean_numeric, in every module: the averages the Environment page of the
\* single-script dashboard shows are the means of the cleaned readings.
C20_AveragesOverCleanedValues ==
    (/\ Did("indore_dashboard", "environment_page")
     /\ EnvCols \subseteq data["environment"].cols) =>
        /\ result.st = "ret"
        /\ \A i \in 1..Len(IndorePollutants) :
               IsMeanOfUsable(result.val[i],
                              Column(data["environment"], IndorePollutants[i]), 1)

\* the rows of df that have a group key
KeyedRows(df, keycol) == {i \in 1..Len(df.rows) : ~IsNa(df.rows[i][keycol])}

\* the entries of a grouping result that carry the name k
EntriesOf(out, name, k) == {i \in 1..Len(out) : out[i][name] = k}

\* C21: grouping is by literal equality of the zone/ward name.  Every row
\* with a name falls in exactly one entry of the result, the one carrying
\* its name character for character; two rows share an entry if and only if
\* their names are identical; and an entry's value is the sum over the rows
\* with exactly its name, so names that differ only in letter case or in a
\* leading/trailing blank form separate entries with separate sums.
C21_GroupingByLiteralName ==
    (Returned /\ call.op \in GroupingOps
       /\ result.st = "ret" /\ result.val # None) =>
        LET t == QueriedTable
            keycol == GroupColumnOf(call.op)
            name == KeyNameOf(call.op)
            out == result.val.rows
            keyed == KeyedRows(t, keycol)
        IN  /\ \A a \in keyed :
                   Cardinality(EntriesOf(out, name, t.rows[a][keycol])) = 1
            /\ \A a, b \in keyed :
                   (EntriesOf(out, name, t.rows[a][keycol])
                        = EntriesOf(out, name, t.rows[b][keycol]))
                     <=> t.rows[a][keycol] = t.rows[b][keycol]
            /\ \A i \in 1..Len(out) :
                   out[i]["Value"] =
                       Num(TotalOfKey(t, keycol, ValueColumnOf(call.op),
                                      out[i][name], Len(t.rows)))

\* C21 witness: the zones "Z1", "z1" and "Z1 " of one water table came out
\* as three entries of 600, 400 and 300 households.
C21_Witness ==
    /\ Did("DashboardApp", "get_water_by_zone")
    /\ IsFrame(data["water_sanitation"])
    /\ ZoneName \in data["water_sanitation"].cols
    /\ Column(data["water_sanitation"], ZoneName) = <<Z1, Z1Lower, Z1Blank>>
    /\ result.st = "ret" /\ result.val # None
    /\ result.val.rows =
           <<[c \in {ZoneName, "Value"} |-> IF c = ZoneName THEN Z1 ELSE Whole(600)],
             [c \in {ZoneName, "Value"} |-> IF c = ZoneName THEN Z1Lower ELSE Whole(400)],
             [c \in {ZoneName, "Value"} |-> IF c = ZoneName THEN Z1Blank ELSE Whole(300)]>>

\* the "Value" cells of a grouping result, added up
SumOfValues(out) == SumCells([i \in 1..Len(out) |-> out[i]["Value"]])

\* valcol added up over the rows of df that have a group key
SumOverKeyedRows(df, keycol, valcol) ==
    SumCells([i \in 1..Len(df.rows) |->
                 IF IsNa(df.rows[i][keycol]) THEN NaN ELSE df.rows[i][valcol]])

\* C22: a row whose zone/ward name is missing contributes to no group.  On
\* a non-empty table that has the grouping and the value column, a grouping
\* query returns a table (not None, nothing raised) whatever rows lack a
\* name, and its values add up to the sum of the value column over exactly
\* the rows that have a name.  (The ward breakdown is cut to TopN wards;
\* the sum is stated for a table of at most TopN wards.)
C22_MissingNameInNoGroup ==
    (Returned /\ call.op \in GroupingOps
       /\ DatasetOf(call.op) \in DOMAIN Loaded
       /\ ~NoneOrEmpty(QueriedTable)
       /\ GroupColumnOf(call.op) \in QueriedTable.cols
       /\ ValueColumnOf(call.op) \in QueriedTable.cols
       /\ Cardinality(KeysOf(QueriedTable, GroupColumnOf(call.op))) <= TopN) =>
        /\ result.st = "ret"
        /\ result.val # None
        /\ SumOfValues(result.val.rows) =
               SumOverKeyedRows(QueriedTable, GroupColumnOf(call.op),
                                ValueColumnOf(call.op))

\* C22 witness: of a row without zone name (600 households) and a row of
\* zone Z1 (400), the zone breakdown holds the one entry Z1 = 400.
C22_Witness ==
    /\ Did("DashboardApp", "get_water_by_zone")
    /\ IsFrame(data["water_sanitation"])
    /\ WaterCols \subseteq data["water_sanitation"].cols
    /\ Column(data["water_sanitation"], ZoneName) = <<NaN, Z1>>
    /\ Column(data["water_sanitation"], HHCol) = <<Whole(600), Whole(400)>>
    /\ result.st = "ret" /\ result.val # None
    /\ result.val.rows =
           <<[c \in {ZoneName, "Value"} |-> IF c = ZoneName THEN Z1 ELSE Whole(400)]>>

\* what each query of a DashboardApp may return on the tables d
AppAnswers(d) ==
    [get_water_sanitation_stats |-> GetWaterSanitationStats(d),
     get_environment_stats |-> {GetEnvironmentStats(d).out},
     get_crimes_trend |-> GetCrimesTrend(d),
     get_intersections_summary |-> GetIntersectionsSummary(d),
     get_employment_stats |-> GetEmploymentStats(d),
     get_water_by_zone |-> GetWaterByZone(d),
     get_water_by_ward |-> GetWaterByWard(d),
     get_environment_trend |-> GetEnvironmentTrend(d),
     get_intersections_by_zone |-> GetIntersectionsByZone(d)]

\* what each query of a DataHandler may return on the tables ds
HandlerAnswers(ds) ==
    [get_water_stats |-> GetWaterStats(ds),
     get_environment_stats |-> HandlerEnvironmentStats(ds),
     get_crime_data |-> GetCrimeData(ds),
     get_infrastructure_stats |-> GetInfrastructureStats(ds),
     get_employment_stats |-> HandlerEmploymentStats(ds),
     get_zone_data |-> [a \in ZoneDataDatasets \X ZoneDataColumns |->
                           GetZoneData(ds, a[1], a[2])]]

\* C23: every query is a function of the tables as loaded.  Whatever
\* queries were made before, each query answers in the state reached what
\* it answers on the tables the constructor left, and the answer the last
\* query gave is such an answer; so a query returns the same after any two
\* sequences of earlier calls, and the same when called twice in a row.
\* (Where rows tie in a sort the answer is the order the sort gives that
\* table: the same table, the same orders.)
C23_QueriesAreFunctionsOfLoadedTables ==
    /\ data # NoMapping => AppAnswers(data) = AppAnswers(asLoaded)
    /\ datasets # NoMapping => HandlerAnswers(datasets) = HandlerAnswers(asLoaded)
    /\ IsQuery => result \in OutcomesOn(asLoaded)

\* C23 witness: get_environment_stats had written its five columns into the
\* loaded environment table, and get_environment_trend, called after it,
\* returned the three columns it returns on the table as loaded.
C23_Witness ==
    /\ Did("DashboardApp", "get_environment_trend")
    /\ IsFrame(asLoaded["environment"])
    /\ data["environment"].cols = asLoaded["environment"].cols
                                     \cup {"PM2.5", "PM10", "NO2", "SO2", "O3"}
    /\ data["environment"].cols # asLoaded["environment"].cols
    /\ result.st = "ret" /\ result.val # None
    /\ result.val.cols = {MonthYearCol, "PM2.5", "PM10"}
    /\ result \in GetEnvironmentTrend(asLoaded)

\* the pollutant columns an environment summary averages, each with the
\* key of its average, on the store the last call was made on
AveragedPollutants ==
    IF OnHandler
    THEN {<<PM25Col, "pm25_avg">>, <<PM10Col, "pm10_avg">>, <<NO2Col, "no2_avg">>}
    ELSE {<<PM25Col, "pm25_avg">>, <<PM10Col, "pm10_avg">>, <<NO2Col, "no2_avg">>,
          <<SO2Col, "so2_avg">>, <<O3Col, "o3_avg">>}

\* no cell of the column is a reading once cleaned by the store's clean_numeric
NoUsableReading(df, col) ==
    \A i \in 1..Len(df.rows) :
        IsNa(IF OnHandler THEN HandlerCleanNumeric(df.rows[i][col])
             ELSE CleanNumeric(df.rows[i][col]))

\* C25: "no data" is never reported as a computed zero: when a pollutant
\* column of the loaded environment table has no usable reading at all, the
\* environment summary does not give 0 as that pollutant's average.
C25_NoDataIsNotZero ==
    (Returned /\ call.op = "get_environment_stats"
       /\ result.st = "ret" /\ ~IsEmptyDict(result.val)) =>
        \A p \in AveragedPollutants :
            NoUsableReading(QueriedTable, p[1]) => result.val.d[p[2]] # Whole(0)

\* the get_*_stats operations of the two stores
StatsOps ==
    {"get_water_sanitation_stats", "get_water_stats", "get_environment_stats",
     "get_infrastructure_stats", "get_employment_stats"}

\* C26: every value of a non-empty mapping a get_*_stats operation returns
\* is a finite number, never NaN and never infinite, whatever the loaded
\* table: a pollutant column without a usable reading and an employment
\* row with a zero labour force included.
C26_SummaryValuesAreFinite ==
    (Returned /\ call.op \in StatsOps
       /\ result.st = "ret" /\ ~IsEmptyDict(result.val)) =>
        \A k \in DOMAIN result.val.d : IsNum(result.val.d[k])

\* the five dataset names of a store, as a set
NamesOf(keys) == {keys[i] : i \in 1..Len(keys)}

\* d has exactly the names as keys, each bound to a table or to None
HasExactly(d, names) ==
    /\ DOMAIN d = names
    /\ \A k \in names : d[k] = None \/ IsFrame(d[k])

\* the exceptions the five queries of show_overview raise on the loaded
\* tables
OverviewQueryFailures ==
    LET d == asLoaded
        outcomes ==
            IF call.obj = "app"
            THEN GetWaterSanitationStats(d) \cup {GetEnvironmentStats(d).out}
                     \cup GetCrimesTrend(d) \cup GetIntersectionsSummary(d)
                     \cup GetEmploymentStats(d)
            ELSE GetWaterStats(d) \cup HandlerEnvironmentStats(d)
                     \cup GetCrimeData(d) \cup GetInfrastructureStats(d)
                     \cup HandlerEmploymentStats(d)
    IN  {o \in outcomes : o.st = "raise"}

\* C27: once load_all / load_data has returned, the dataset mapping has
\* exactly the store's five dataset names as keys, each bound to a table or
\* to None, and keeps them through any sequence of queries; so the key a
\* query on one of the five names reads is there, and the status lookup of
\* show_overview raises no KeyError: an overview that gets to its status
\* table shows all five names, and a KeyError it raises is one that a query
\* raised for a column its table lacks.
C27_FiveKeysAlways ==
    /\ data # NoMapping => HasExactly(data, NamesOf(AppStatusKeys))
    /\ datasets # NoMapping => HasExactly(datasets, NamesOf(MainStatusKeys))
    /\ (IsQuery /\ DatasetOf(call.op)
                     \in NamesOf(IF OnHandler THEN MainStatusKeys ELSE AppStatusKeys))
           => DatasetOf(call.op) \in DOMAIN Loaded
    /\ (Returned /\ call.op = "show_overview") =>
           /\ result.st = "ret" =>
                  DOMAIN result.val.d
                      = NamesOf(IF call.obj = "app" THEN AppStatusKeys
                                ELSE MainStatusKeys)
           /\ result.st = "raise" => result \in OverviewQueryFailures

\* C27 witness: with the crimes file missing, show_overview of app.py ran
\* its queries, get_environment_stats among them writing into the
\* environment table, and its status lookup found all five keys: 0 records
\* for crimes, 2 for water.
C27_Witness ==
    /\ Did("app", "show_overview")
    /\ files[CrimesFile] = MissingFile
    /\ data # asLoaded
    /\ result.st = "ret"
    /\ DOMAIN result.val.d = NamesOf(AppStatusKeys)
    /\ result.val.d["crimes"] = Whole(0)
    /\ result.val.d["water_sanitation"] = Whole(2)

\* the tables the other store loads from the same files
OtherStore ==
    IF OnHandler THEN LoadAll(files, files, NoMapping).d
    ELSE LoadData(files, files, NoMapping).d

\* what the other store's operation for the same figures may return
CounterpartOutcomes ==
    IF OnHandler
    THEN CASE call.op = "get_water_stats" -> GetWaterSanitationStats(OtherStore)
           [] call.op = "get_infrastructure_stats" ->
                  GetIntersectionsSummary(OtherStore)
           [] call.op = "get_employment_stats" -> GetEmploymentStats(OtherStore)
           [] call.op = "get_crime_data" -> GetCrimesTrend(OtherStore)
           [] call.op = "get_zone_data" /\ call.args = <<"water", HHCol>> ->
                  GetWaterByZone(OtherStore)
           [] call.op = "get_zone_data"
                /\ call.args = <<"infrastructure", IntersectionsCol>> ->
                  GetIntersectionsByZone(OtherStore)
           [] OTHER -> {}
    ELSE CASE call.op = "get_water_sanitation_stats" -> GetWaterStats(OtherStore)
           [] call.op = "get_intersections_summary" ->
                  GetInfrastructureStats(OtherStore)
           [] call.op = "get_employment_stats" -> HandlerEmploymentStats(OtherStore)
           [] call.op = "get_crimes_trend" -> GetCrimeData(OtherStore)
           [] call.op = "get_water_by_zone" ->
                  GetZoneData(OtherStore, "water", HHCol)
           [] call.op = "get_intersections_by_zone" ->
                  GetZoneData(OtherStore, "infrastructure", IntersectionsCol)
           [] OTHER -> {}

\* the figures the two summaries of a dataset have in common
SharedFigures ==
    CASE call.op \in {"get_water_stats", "get_water_sanitation_stats"} ->
             {"total_households", "sewerage_coverage", "toilet_coverage",
              "public_toilets"}
      [] call.op \in {"get_infrastructure_stats", "get_intersections_summary"} ->
             {"total_intersections", "signalized_intersections"}
      [] OTHER -> {"labour_force", "employed", "unemployed", "unemployment_rate"}

\* the entries of a grouping result as <<name, value>>, top to bottom
Entries(frame) ==
    LET name == CHOOSE c \in frame.cols : c # "Value"
    IN  [i \in 1..Len(frame.rows) |->
            <<frame.rows[i][name], frame.rows[i]["Value"]>>]

\* x and y, returned by the two stores, hold the same figures
SameFigures(x, y) ==
    CASE x.t = "dict" /\ y.t = "dict" ->
             /\ IsEmptyDict(x) <=> IsEmptyDict(y)
             /\ ~IsEmptyDict(x) => \A f \in SharedFigures : x.d[f] = y.d[f]
      [] x.t = "frame" /\ y.t = "frame" ->
             IF "Value" \in x.cols /\ "Value" \in y.cols
             THEN Entries(x) = Entries(y)
             ELSE x = y
      [] OTHER -> x = y

\* C28: the two aggregation implementations agree.  Whenever an operation
\* of one store returns and the other store's operation for the same
\* figures, on tables loaded from the same files, returns too, the two
\* return the same household, sewerage, toilet and public toilet totals,
\* the same total and signalized intersections, the same labour force,
\* employed, unemployed and unemployment rate, the same crimes trend and
\* the same zone entries in the same order.
C28_ImplementationsAgree ==
    (IsQuery /\ result.st = "ret"
       /\ \E y \in CounterpartOutcomes : y.st = "ret") =>
        \E y \in CounterpartOutcomes :
            y.st = "ret" /\ SameFigures(result.val, y.val)

(***************************************************************************)
(* Properties of two callers sharing a DashboardApp (checked under         *)
(* SpecShared).                                                            *)
(***************************************************************************)
\* what the query of caller c returns when it runs alone on the tables as
\* loaded
AloneOnLoaded(c) ==
    IF call[c].op = "get_environment_stats"
    THEN {GetEnvironmentStats(asLoaded).out}
    ELSE GetEnvironmentTrend(asLoaded)

\* the columns caller c has itself assigned in the query it is in
WrittenBy(c) ==
    IF call[c].op = "get_environment_stats"
    THEN {StatsPollutants[i][2] : i \in 1..(call[c].pc - 1)}
    ELSE {}

\* under every interleaving a query returns what it returns alone on the
\* tables as loaded
SharedResultsAsAlone ==
    \A c \in Callers :
        (call[c] # Idle /\ result[c] # Pending) => result[c] \in AloneOnLoaded(c)

\* no caller reads a shared table whose columns, those it assigned itself
\* in this query aside, are not the columns of the loaded table
SharedColumnsAsLoaded ==
    \A c \in Callers :
        call[c] # Idle =>
            call[c].seen \ WrittenBy(c) = ColumnsOf(asLoaded["environment"])

\* C24: two callers share one DashboardApp without synchronisation; under
\* every interleaving of the statements of their queries each query returns
\* what it returns alone on the freshly loaded tables, and no caller ever
\* observes a table whose set of columns differs from the loaded one.
C24_SharedWithoutSynchronisation ==
    /\ SharedResultsAsAlone
    /\ SharedColumnsAsLoaded

(***************************************************************************)
(* Properties of the dataset creator (checked under SpecCreator).          *)
(***************************************************************************)
\* save_unified_datasets has run
Saved ==
    /\ datasets # Unmakeable
    /\ call.op \in {"save_unified_datasets", "create_reference_document",
                    "load_all", "load_data"}

\* the files dict of the store that loaded the directory written
StoreFilesOnUnified == IF call.op = "load_data" THEN HandlerFiles ELSE LoaderFiles

\* a CSV source of the script was missing or unreadable
SomeSourceFailed ==
    \E i \in 1..Len(CsvFiles) : files[CsvFiles[i][2]].st # "ok"

\* C29 as stated: a dataset whose source file failed to load is skipped by
\* the creator without raising, so save_unified_datasets returns whenever a
\* source has failed.
C29_SkippedWithoutRaising ==
    (Did("UnifiedDatasetCreator", "save_unified_datasets") /\ SomeSourceFailed)
        => result.st = "ret"

\* C29, amended: for each of the five datasets the file
\* save_unified_datasets writes for a dataset load_all_files loaded,
\* unified_<key>.csv, is the file DataLoader.load_all and
\* DataHandler.load_data look for, so a store pointed at the directory
\* written loads the table written.  A dataset whose source file was
\* missing or unreadable is skipped and the script leaves no file for it;
\* no source that failed makes the creator raise: load_all_files always
\* returns, and save_unified_datasets raises exactly when the directory
\* unified/ cannot be made (os.makedirs, before the loop), whatever was
\* loaded.
C29_CreatorWritesWhatTheStoresLoad ==
    /\ call.obj = "UnifiedDatasetCreator" =>
           (result.st = "raise"
               <=> (call.op = "save_unified_datasets" /\ datasets = Unmakeable))
    /\ Saved =>
        \A i \in 1..Len(CsvFiles) :
            LET key == CsvFiles[i][1]
                name == UnifiedName(key)
            IN  /\ name = LoaderFiles[i][2]
                /\ name = HandlerFiles[i][2]
                /\ key \in DOMAIN data =>
                       /\ name \in DOMAIN datasets
                       /\ datasets[name] \in {ToCsv(data[key]), LockedFile}
                /\ key \notin DOMAIN data =>
                       (name \in DOMAIN datasets => datasets[name] = LockedFile)
    /\ (Saved /\ call.op \in {"load_all", "load_data"}) =>
        \A i \in 1..Len(CsvFiles) :
            LET key == CsvFiles[i][1]
                found == asLoaded[StoreFilesOnUnified[i][1]]
            IN  IF key \in DOMAIN data
                     /\ datasets[UnifiedName(key)] = ToCsv(data[key])
                THEN found = ReadCsv(ToCsv(data[key])).val
                ELSE found = None

\* C29 witness: the water source was read and the crimes source was
\* missing; the script wrote unified_water_sanitation.csv, no
\* unified_crimes.csv, and the reference document; the DataLoader pointed
\* at the directory loaded the water table and None for crimes, and
\* returned that dict.
C29_Witness ==
    /\ Did("DataLoader", "load_all")
    /\ datasets # Unmakeable
    /\ files[CsvFiles[1][2]].st = "ok"
    /\ files[CsvFiles[3][2]] = MissingFile
    /\ "water_sanitation" \in DOMAIN data
    /\ "crimes" \notin DOMAIN data
    /\ datasets["unified_water_sanitation.csv"] = ToCsv(data["water_sanitation"])
    /\ "unified_crimes.csv" \notin DOMAIN datasets
    /\ ReferenceDocument \in DOMAIN datasets
    /\ IsFrame(asLoaded["water_sanitation"])
    /\ asLoaded["water_sanitation"].rows = DefaultWater.rows
    /\ asLoaded["crimes"] = None
    /\ result = Ret(asLoaded)

====
